---- MODULE Spec2Model ----
(***************************************************************************)
(* Kernameters backend (kernel-module-info/kernameters.py): the profile    *)
(* name sanitiser, the profile store (save / load / list), the sysfs write *)
(* accessor and the best-effort profile applier.                           *)
(*                                                                         *)
(* Text is modelled as sequences of one-character strings wherever the     *)
(* code looks at characters (profile names, file names); other text        *)
(* (descriptions, sysfs values, module and parameter names) is an atom.    *)
(* A JSON value is a tagged record: [t |-> "str", v |-> text],             *)
(* [t |-> "int", v |-> decimal text], [t |-> "map", v |-> <<key, value>>   *)
(* pairs in insertion order with distinct keys].                           *)
(***************************************************************************)
EXTENDS Integers, Sequences, FiniteSets, TLC

VARIABLES
    sanIn, sanOut, sanOut2, sanStage,
    dirExists, files, now, lastCall, okSaves, lastWrite,
    dirReadable,
    sysfs, pc, applying, mi, pj, successCount, failures, calls, applyResult,
    wpc, wreq, wres, wlog, rres, rlog,
    lsmodOut, scanPc, module_list, scanIdx, module_data, scanLog,
    loaded_module_data, status_text, overlay, profile_list_walker,
    editing, tuiCalls, raised,
    modinfoOut, catPc, catIdx, params_info, catResult

sanVars == <<sanIn, sanOut, sanOut2, sanStage>>
storeVars == <<dirExists, dirReadable, files, now, lastCall, okSaves, lastWrite>>
applyVars == <<sysfs, pc, applying, mi, pj, successCount, failures, calls, applyResult>>
accessVars == <<wpc, wreq, wres, wlog, rres, rlog>>
scanVars == <<lsmodOut, scanPc, module_list, scanIdx, module_data, scanLog>>
tuiVars == <<loaded_module_data, status_text, overlay, profile_list_walker,
            editing, tuiCalls, raised>>
catalogVars == <<modinfoOut, catPc, catIdx, params_info, catResult>>
restVars == <<accessVars, scanVars, tuiVars, catalogVars>>
vars == <<sanVars, storeVars, applyVars, restVars>>

(***************************************************************************)
(* Bounds of the model.                                                    *)
(***************************************************************************)
MaxLen == 3
MaxPad == 2
MaxClock == 2

Min(a, b) == IF a <= b THEN a ELSE b

(***************************************************************************)
(* _sanitize_filename                                                      *)
(***************************************************************************)
NameLimit == 200

\* Characters matched by \w: letters, digits and the underscore.
WordChars == {"a", "e", "f", "i", "l", "o", "r", "y", "M", "P", "1", "2", "_"}

\* name.replace(' ', '_')
ReplaceSpaces(s) == [i \in 1..Len(s) |-> IF s[i] = " " THEN "_" ELSE s[i]]

IsAllowedChar(c) == c \in WordChars \/ c = "-"

\* A substitution that stops after the first match (re.sub with count=1).
StripFirstForbidden(s) ==
    LET bad == {i \in 1..Len(s) : ~IsAllowedChar(s[i])} IN
    IF bad = {} THEN s
    ELSE LET k == CHOOSE i \in bad : \A j \in bad : i <= j
         IN  SubSeq(s, 1, k - 1) \o SubSeq(s, k + 1, Len(s))

\* re.sub(r'[^\w\-]', '', name)
StripForbidden(s) == SelectSeq(s, IsAllowedChar)

\* A slice that keeps one character too many.
TruncateOffByOne(s) == SubSeq(s, 1, Min(Len(s), NameLimit + 1))

\* name[:200]
Truncate(s) == SubSeq(s, 1, Min(Len(s), NameLimit))

_sanitize_filename(name) ==
    IF name = <<>> THEN <<>>
    ELSE Truncate(StripForbidden(ReplaceSpaces(name)))

(***************************************************************************)
(* Inputs of the sanitiser: every short string over a small alphabet, the  *)
(* spec's example, and strings around the length limit.                    *)
(***************************************************************************)
SanAlphabet == {"a", "_", "-", " ", "!"}

SeqsUpTo(S, n) == UNION {[1..k -> S] : k \in 0..n}

Pad(n) == [i \in 1..n |-> "a"]

ExampleName == <<"M", "y", " ", "P", "r", "o", "f", "i", "l", "e", "!", "!">>

ExampleSanitized == <<"M", "y", "_", "P", "r", "o", "f", "i", "l", "e">>

LongInputs ==
    {s \o Pad(n) \o t :
        s \in SeqsUpTo(SanAlphabet, 1), t \in SeqsUpTo(SanAlphabet, 1),
        n \in (NameLimit - MaxPad)..(NameLimit + MaxPad)}

SanInputs == SeqsUpTo(SanAlphabet, MaxLen) \cup LongInputs \cup {ExampleName}

(***************************************************************************)
(* JSON values and Python's str().                                         *)
(***************************************************************************)
JStr(s) == [t |-> "str", v |-> s]

JInt(d) == [t |-> "int", v |-> d]

JMap(pairs) == [t |-> "map", v |-> pairs]

\* isinstance(x, dict)
IsDict(x) == x.t = "map"

\* str(value): the text of a string, the decimal text of a number.
PyStr(value) == IF value.t = "map" THEN "{...}" ELSE value.v

(***************************************************************************)
(* The parameter file system: one text file per (module, parameter).       *)
(***************************************************************************)
Paths == {<<"usbcore", "autosuspend">>, <<"usbcore", "debug">>, <<"bogus", "x">>}

PathExists(fs, path) == path \in DOMAIN fs /\ fs[path].exists

\* What the open and the write of an existing, writable file can end in:
\* success, or an IOError with errno EACCES, EPERM, EINVAL, ENOENT (another
\* actor removed the file after the existence check), EIO, or another fault.
WriteOutcomes == {"ok", "EACCES", "EPERM", "EINVAL", "ENOENT", "EIO", "exc"}

\* A write that reports success without storing the value.
SetWithoutStore(fs, m, p, value, env) ==
    IF ~PathExists(fs, <<m, p>>)
    THEN [ok |-> FALSE, msg |-> [kind |-> "NotFound", path |-> <<m, p>>], fs |-> fs]
    ELSE IF ~fs[<<m, p>>].writable
    THEN [ok |-> FALSE, msg |-> [kind |-> "PermissionDeniedProcess"], fs |-> fs]
    ELSE IF env = "ok"
    THEN [ok |-> TRUE, msg |-> [kind |-> "Wrote", value |-> value, param |-> p], fs |-> fs]
    ELSE [ok |-> FALSE, msg |-> [kind |-> "Other", param |-> p, errno |-> env], fs |-> fs]

\* The two checks made before the file is opened, permission first.
PreCheckPermissionFirst(fs, path) ==
    IF ~(path \in DOMAIN fs /\ fs[path].writable)
    THEN [pass |-> FALSE, ok |-> FALSE, msg |-> [kind |-> "PermissionDeniedProcess"]]
    ELSE IF ~PathExists(fs, path)
    THEN [pass |-> FALSE, ok |-> FALSE, msg |-> [kind |-> "NotFound", path |-> path]]
    ELSE [pass |-> TRUE, ok |-> FALSE, msg |-> [kind |-> "none"]]

\* os.path.exists, then os.access(W_OK); os.access is false for an absent path.
PreCheck(fs, path) ==
    IF ~PathExists(fs, path)
    THEN [pass |-> FALSE, ok |-> FALSE, msg |-> [kind |-> "NotFound", path |-> path]]
    ELSE IF ~fs[path].writable
    THEN [pass |-> FALSE, ok |-> FALSE, msg |-> [kind |-> "PermissionDeniedProcess"]]
    ELSE [pass |-> TRUE, ok |-> FALSE, msg |-> [kind |-> "none"]]

\* An open that reports a vanished file as not found.
OpenAndWriteNotFound(fs, m, p, value, env) ==
    IF env = "ok"
    THEN [ok |-> TRUE, msg |-> [kind |-> "Wrote", value |-> value, param |-> p],
          fs |-> [fs EXCEPT ![<<m, p>>].content = value]]
    ELSE IF env = "ENOENT"
    THEN [ok |-> FALSE, msg |-> [kind |-> "NotFound", path |-> <<m, p>>], fs |-> fs]
    ELSE [ok |-> FALSE, msg |-> [kind |-> "Other", param |-> p, errno |-> env], fs |-> fs]

\* The try block and its handlers. The outcome "noerrno" is an IOError whose
\* errno is None: the last IOError branch passes it to os.strerror, which
\* raises TypeError inside the handler, so no pair is returned (kind "Raised").
OpenAndWrite(fs, m, p, value, env) ==
    LET path == <<m, p>> IN
    CASE env = "ok" ->
           [ok |-> TRUE,
            msg |-> [kind |-> "Wrote", value |-> value, param |-> p],
            fs |-> [fs EXCEPT ![path].content = value]]
      [] env \in {"EACCES", "EPERM"} ->
           [ok |-> FALSE, msg |-> [kind |-> "PermissionDeniedKernel"], fs |-> fs]
      [] env = "EINVAL" ->
           [ok |-> FALSE,
            msg |-> [kind |-> "InvalidValue", value |-> value, param |-> p],
            fs |-> fs]
      [] env = "ENOENT" ->
           [ok |-> FALSE, msg |-> [kind |-> "Disappeared"],
            fs |-> [fs EXCEPT ![path].exists = FALSE]]
      [] env = "exc" ->
           [ok |-> FALSE, msg |-> [kind |-> "Unexpected", param |-> p], fs |-> fs]
      [] env = "noerrno" ->
           [ok |-> FALSE, msg |-> [kind |-> "Raised", exception |-> "TypeError"], fs |-> fs]
      [] OTHER ->
           [ok |-> FALSE, msg |-> [kind |-> "Other", param |-> p, errno |-> env],
            fs |-> fs]

set_sysfs_param_value(fs, m, p, value, env) ==
    LET check == PreCheck(fs, <<m, p>>) IN
    IF ~check.pass
    THEN [ok |-> check.ok, msg |-> check.msg, fs |-> fs]
    ELSE OpenAndWrite(fs, m, p, value, env)

\* The two strings get_sysfs_param_value returns in place of a value.
AccessErrorSentinel == "N/A (sysfs access error)"

UnexpectedReadSentinel == "N/A (unexpected read error)"

\* What the open and the read of a parameter file can end in: the value
\* followed by a newline, the bare value, the value between blanks, an
\* IOError (the file is missing, errno EACCES or EIO, or no errno at all),
\* or another fault.
ReadOutcomes == {"ok", "bare", "spaced", "ENOENT", "EACCES", "EIO", "noerrno", "exc"}

ReadSucceeds(env) == env \in {"ok", "bare", "spaced"}

\* f.read(): the text of the value with the white space around it.
RawRead(content, env) ==
    CASE env = "ok" -> [lead |-> "", text |-> content, trail |-> "\n"]
      [] env = "spaced" -> [lead |-> " ", text |-> content, trail |-> " \n"]
      [] OTHER -> [lead |-> "", text |-> content, trail |-> ""]

\* The text as read, white space included.
KeepWhitespace(raw) == raw.lead \o raw.text \o raw.trail

\* str.strip()
Strip(raw) == raw.text

get_sysfs_param_value(fs, m, p, env) ==
    IF ~PathExists(fs, <<m, p>>)
    THEN AccessErrorSentinel
    ELSE CASE ReadSucceeds(env) -> Strip(RawRead(fs[<<m, p>>].content, env))
           [] env \in {"ENOENT", "EACCES", "EIO", "noerrno"} -> AccessErrorSentinel
           [] OTHER -> UnexpectedReadSentinel

(***************************************************************************)
(* apply_profile_parameters                                                *)
(***************************************************************************)
ExampleProfile ==
    JMap(<< <<"usbcore", JMap(<< <<"autosuspend", JInt("2")>> >>)>>,
            <<"bogus", JMap(<< <<"x", JInt("1")>> >>)>> >>)

MalformedFirst ==
    JMap(<< <<"bogus", JStr("oops")>>,
            <<"usbcore", JMap(<< <<"debug", JStr("1")>>, <<"autosuspend", JStr("2")>> >>)>> >>)

MalformedLast ==
    JMap(<< <<"usbcore", JMap(<< <<"autosuspend", JStr("1")>> >>)>>,
            <<"bogus", JInt("7")>> >>)

NoParams == JMap(<< <<"usbcore", JMap(<< >>)>>, <<"bogus", JMap(<< <<"x", JStr("2")>> >>)>> >>)

ApplyInputs == {ExampleProfile, MalformedFirst, MalformedLast, NoParams, JMap(<< >>), JStr("oops")}

NoResult == [kind |-> "none"]

\* The result for a profile_parameters that is not a dictionary.
NotADictResult ==
    [success_count |-> 0, failure_count |-> 1,
     failures |-> <<[module |-> "N/A", parameter |-> "N/A", value |-> "N/A",
                     reason |-> [kind |-> "InvalidProfileFormat"]]>>]

\* The entry appended for a module whose parameters are not a dictionary.
MalformedEntry(m) ==
    [module |-> m, parameter |-> "N/A", value |-> "N/A",
     reason |-> [kind |-> "InvalidModuleFormat", module |-> m]]

\* An entry that drops the attempted value.
FailureEntryNoValue(m, p, value, msg) ==
    [module |-> m, parameter |-> p, value |-> "N/A", reason |-> msg]

\* The entry appended for a failed write.
FailureEntry(m, p, value, msg) ==
    [module |-> m, parameter |-> p, value |-> PyStr(value), reason |-> msg]

\* A loop that gives up at the first failed write.
BreakOnFailure(i, j, ok) == IF ok THEN <<i, j + 1>> ELSE <<Len(applying.v) + 1, 1>>

\* The inner loop goes on to the next parameter whatever the write returned.
PosAfterWrite(i, j, ok) == <<i, j + 1>>

\* A malformed module that ends the whole apply.
ReturnAtMalformed(i) == Len(applying.v) + 1

\* continue: on to the next module.
PosAfterMalformed(i) == i + 1

ApplySummary ==
    [success_count |-> successCount, failure_count |-> Len(failures), failures |-> failures]

\* Lines 345-355: the counters are reset and the argument is inspected.
ApplyEnter(p) ==
    /\ pc = "idle"
    /\ applying' = p
    /\ successCount' = 0
    /\ failures' = <<>>
    /\ calls' = <<>>
    /\ mi' = 1
    /\ pj' = 1
    /\ IF ~IsDict(p)
       THEN pc' = "done" /\ applyResult' = NotADictResult
       ELSE pc' = "loop" /\ applyResult' = NoResult
    /\ UNCHANGED sysfs

ApplyBegin(p) ==
    /\ ApplyEnter(p)
    /\ UNCHANGED <<sanVars, storeVars, restVars>>

ApplyMalformed ==
    /\ pc = "loop"
    /\ mi <= Len(applying.v)
    /\ ~IsDict(applying.v[mi][2])
    /\ failures' = Append(failures, MalformedEntry(applying.v[mi][1]))
    /\ mi' = PosAfterMalformed(mi)
    /\ pj' = 1
    /\ UNCHANGED <<sysfs, pc, applying, successCount, calls, applyResult, sanVars, storeVars, restVars>>

ApplyWrite ==
    /\ pc = "loop"
    /\ mi <= Len(applying.v)
    /\ IsDict(applying.v[mi][2])
    /\ pj <= Len(applying.v[mi][2].v)
    /\ \E env \in WriteOutcomes :
        LET m == applying.v[mi][1]
            p == applying.v[mi][2].v[pj][1]
            value == applying.v[mi][2].v[pj][2]
            r == set_sysfs_param_value(sysfs, m, p, PyStr(value), env)
            pos == PosAfterWrite(mi, pj, r.ok)
        IN  /\ sysfs' = r.fs
            /\ calls' = Append(calls, [module |-> m, parameter |-> p, value |-> PyStr(value),
                                       existed |-> PathExists(sysfs, <<m, p>>),
                                       ok |-> r.ok, msg |-> r.msg])
            /\ successCount' = IF r.ok THEN successCount + 1 ELSE successCount
            /\ failures' = IF r.ok THEN failures
                           ELSE Append(failures, FailureEntry(m, p, value, r.msg))
            /\ mi' = pos[1]
            /\ pj' = pos[2]
    /\ UNCHANGED <<pc, applying, applyResult, sanVars, storeVars, restVars>>

ApplyNextModule ==
    /\ pc = "loop"
    /\ mi <= Len(applying.v)
    /\ IsDict(applying.v[mi][2])
    /\ pj > Len(applying.v[mi][2].v)
    /\ mi' = mi + 1
    /\ pj' = 1
    /\ UNCHANGED <<sysfs, pc, applying, successCount, failures, calls, applyResult,
                   sanVars, storeVars, restVars>>

ApplyReturn ==
    /\ pc = "loop"
    /\ mi > Len(applying.v)
    /\ applyResult' = ApplySummary
    /\ pc' = "done"
    /\ UNCHANGED <<sysfs, applying, mi, pj, successCount, failures, calls, sanVars, storeVars, restVars>>

\* The caller is done with the result; the next apply starts from scratch.
ApplyForget ==
    /\ pc = "done"
    /\ pc' = "idle"
    /\ applying' = JMap(<< >>)
    /\ mi' = 1
    /\ pj' = 1
    /\ successCount' = 0
    /\ failures' = <<>>
    /\ calls' = <<>>
    /\ applyResult' = NoResult
    /\ UNCHANGED <<sysfs, sanVars, storeVars, restVars>>

NextApply ==
    \/ \E p \in ApplyInputs : ApplyBegin(p)
    \/ ApplyMalformed
    \/ ApplyWrite
    \/ ApplyNextModule
    \/ ApplyReturn
    \/ ApplyForget

(***************************************************************************)
(* The profile store: a directory of <sanitized name>.json files.          *)
(* dirExists says whether the profile directory exists; files maps each    *)
(* file name in it to its content, a JSON object (the sequence of its      *)
(* members) or the partial text left by a write that failed.               *)
(***************************************************************************)
NoFiles == [n \in {} |-> [kind |-> "none"]]

Ext == <<".", "j", "s", "o", "n">>

\* os.path.join(base_dir, f"{name}.json"), relative to the profile directory
FileName(stem) == stem \o Ext

\* f.endswith(".json")
EndsWithExt(f) == Len(f) >= Len(Ext) /\ SubSeq(f, Len(f) - Len(Ext) + 1, Len(f)) = Ext

\* os.path.splitext(f)[0]: the name up to its last dot (a leading dot is no extension)
SplitExtStem(f) ==
    LET dots == {i \in 2..Len(f) : f[i] = "."} IN
    IF dots = {} THEN f
    ELSE SubSeq(f, 1, (CHOOSE i \in dots : \A j \in dots : j <= i) - 1)

\* datetime.now().isoformat()
IsoFormat(t) == ToString(t)

\* A record that stores the file name where the display name belongs.
ProfileDataSanitizedOnly(profile_name, sanitized_name, description, parameters, t) ==
    << <<"profile_name", JStr(sanitized_name)>>,
       <<"sanitized_name", JStr(sanitized_name)>>,
       <<"description", JStr(description)>>,
       <<"date_created", JStr(IsoFormat(t))>>,
       <<"parameters", parameters>> >>

\* profile_data, as json.dump writes it: the members in insertion order.
ProfileData(profile_name, sanitized_name, description, parameters, t) ==
    << <<"profile_name", JStr(profile_name)>>,
       <<"sanitized_name", JStr(sanitized_name)>>,
       <<"description", JStr(description)>>,
       <<"date_created", JStr(IsoFormat(t))>>,
       <<"parameters", parameters>> >>

\* json.load of an object: a dictionary, the last member of a key winning.
JsonLoad(members) ==
    [k \in {members[i][1] : i \in 1..Len(members)} |->
        members[CHOOSE i \in 1..Len(members) :
                    /\ members[i][1] = k
                    /\ \A j \in (i + 1)..Len(members) : members[j][1] # k][2]]

RequiredKeys == {"profile_name", "parameters", "sanitized_name", "date_created", "description"}

None == [none |-> TRUE]

\* A check that lets every name through.
NeverInvalid(sanitized_name) == FALSE

\* not sanitized_name
NameIsInvalid(sanitized_name) == sanitized_name = <<>>

\* An exclusive create, which keeps a file that is already there.
WriteIfAbsent(fs, f, content) == IF f \in DOMAIN fs THEN fs ELSE (f :> content) @@ fs

\* open(file_path, 'w') and the write: the file is created or replaced.
WriteFile(fs, f, content) == (f :> content) @@ fs

\* What the environment can do to a save: nothing, refuse to create the
\* directory, refuse to open the file, or fail while the JSON text is written.
SaveFaults == {"none", "mkdir", "open", "dump"}

\* What a file of the profile directory can hold. "json" is a JSON object
\* with its members; "partial" is text that is not valid JSON; "binary" is
\* bytes that are not text; "scalar" is a JSON number and "array" an empty
\* JSON array; "dir" is a directory of that name; "locked" is a file the
\* process may not open.
OpenFails(content) == content.kind \in {"dir", "locked"}

\* load_profile without the required-fields validation.
LoadUnvalidated(profile_name_sanitized) ==
    LET f == FileName(profile_name_sanitized) IN
    IF ~(dirExists /\ f \in DOMAIN files)
    THEN [data |-> None, msg |-> [kind |-> "NotFound", file |-> f]]
    ELSE IF OpenFails(files[f])
    THEN [data |-> None, msg |-> [kind |-> "ReadError", file |-> f]]
    ELSE IF files[f].kind = "partial"
    THEN [data |-> None, msg |-> [kind |-> "InvalidJSON", file |-> f]]
    ELSE IF files[f].kind \in {"binary", "scalar"}
    THEN [data |-> None, msg |-> [kind |-> "Unexpected", name |-> profile_name_sanitized]]
    ELSE IF files[f].kind = "array"
    THEN [data |-> None, msg |-> [kind |-> "Unexpected", name |-> profile_name_sanitized]]
    ELSE LET d == JsonLoad(files[f].members) IN
         [data |-> d,
          msg |-> [kind |-> "Loaded",
                   name |-> IF "profile_name" \in DOMAIN d THEN d["profile_name"].v
                            ELSE profile_name_sanitized]]

load_profile(profile_name_sanitized) ==
    LET f == FileName(profile_name_sanitized) IN
    IF ~(dirExists /\ f \in DOMAIN files)
    THEN [data |-> None, msg |-> [kind |-> "NotFound", file |-> f]]
    ELSE IF OpenFails(files[f])
    THEN [data |-> None, msg |-> [kind |-> "ReadError", file |-> f]]
    ELSE IF files[f].kind = "partial"
    THEN [data |-> None, msg |-> [kind |-> "InvalidJSON", file |-> f]]
    ELSE IF files[f].kind \in {"binary", "scalar"}
    THEN [data |-> None, msg |-> [kind |-> "Unexpected", name |-> profile_name_sanitized]]
    ELSE IF files[f].kind = "array"
    THEN [data |-> None, msg |-> [kind |-> "MissingFields", file |-> f]]
    ELSE LET d == JsonLoad(files[f].members) IN
         IF ~(RequiredKeys \subseteq DOMAIN d)
         THEN [data |-> None, msg |-> [kind |-> "MissingFields", file |-> f]]
         ELSE [data |-> d, msg |-> [kind |-> "Loaded", name |-> d["profile_name"].v]]

\* Code points of the characters of file names.
CharCode(c) ==
    CASE c = " " -> 32 [] c = "!" -> 33 [] c = "-" -> 45 [] c = "." -> 46
      [] c = "1" -> 49 [] c = "2" -> 50 [] c = "M" -> 77 [] c = "P" -> 80
      [] c = "_" -> 95 [] c = "a" -> 97 [] c = "b" -> 98 [] c = "c" -> 99
      [] c = "e" -> 101 [] c = "f" -> 102 [] c = "g" -> 103
      [] c = "i" -> 105 [] c = "j" -> 106 [] c = "l" -> 108 [] c = "n" -> 110
      [] c = "o" -> 111 [] c = "r" -> 114 [] c = "s" -> 115 [] c = "u" -> 117 [] c = "y" -> 121

\* a < b for Python strings: by code point, a proper prefix first.
StrLess(a, b) ==
    \E k \in 1..(Len(b)) :
        /\ k <= Len(a) + 1
        /\ \A i \in 1..(k - 1) : a[i] = b[i]
        /\ (k = Len(a) + 1 \/ CharCode(a[k]) < CharCode(b[k]))

\* A sort that puts the greatest first.
RECURSIVE SortedDescending(_)
SortedDescending(S) ==
    IF S = {} THEN <<>>
    ELSE LET m == CHOOSE x \in S : \A y \in S \ {x} : StrLess(y, x)
         IN  <<m>> \o SortedDescending(S \ {m})

\* sorted(...) of distinct strings
RECURSIVE Sorted(_)
Sorted(S) ==
    IF S = {} THEN <<>>
    ELSE LET m == CHOOSE x \in S : \A y \in S \ {x} : StrLess(x, y)
         IN  <<m>> \o Sorted(S \ {m})

\* os.path.isfile
IsFile(content) == content.kind # "dir"

\* An empty directory answered as an error.
NoProfilesAsError == [ok |-> FALSE, names |-> None, msg |-> [kind |-> "NoProfiles"]]

NoProfilesResult == [ok |-> TRUE, names |-> <<>>, msg |-> [kind |-> "NoProfiles"]]

\* A missing directory answered as an empty one.
MissingAsEmpty == NoProfilesResult

NoDirectoryResult == [ok |-> FALSE, names |-> None, msg |-> [kind |-> "NoDirectory"]]

list_profiles ==
    IF ~dirExists
    THEN NoDirectoryResult
    ELSE IF ~dirReadable
    THEN [ok |-> FALSE, names |-> None, msg |-> [kind |-> "ReadError"]]
    ELSE LET profile_files == {f \in DOMAIN files : EndsWithExt(f) /\ IsFile(files[f])} IN
         IF profile_files = {}
         THEN NoProfilesResult
         ELSE LET profile_names == Sorted({SplitExtStem(f) : f \in profile_files})
              IN  [ok |-> TRUE, names |-> profile_names,
                   msg |-> [kind |-> "Found", count |-> Len(profile_names)]]

\* The inputs of the store's operations.
DisplayNames ==
    {<<"P", "1">>, <<"M", "y", " ", "P">>, <<"M", "y", "_", "P">>, <<"a">>, <<"!", "!">>, <<>>}

Descriptions == {"desc", "other"}

UsbDebug == JMap(<< <<"usb", JMap(<< <<"debug", JStr("1")>> >>)>> >>)

StoredParams == {UsbDebug, ExampleProfile}

LoadNames == {_sanitize_filename(n) : n \in DisplayNames} \cup {<<"M", "y", " ", "P">>}

\* History kept for the properties: okSaves[n] lists the successful saves
\* under sanitized name n, lastWrite[n] says whether the most recent save
\* that opened n's file completed ("ok") or failed while writing ("failed").
SaveRecord(profile_name, description, parameters) ==
    [profile_name |-> profile_name, description |-> description, parameters |-> parameters]

AppendSave(hist, n, rec) ==
    (n :> (IF n \in DOMAIN hist THEN Append(hist[n], rec) ELSE <<rec>>)) @@ hist

\* What save_profile does to the profile directory and what it answers.
SaveEffect(profile_name, description, parameters, fault) ==
    LET sanitized_name == _sanitize_filename(profile_name)
        call == [op |-> "save", profile_name |-> profile_name,
                 description |-> description, parameters |-> parameters]
    IN
    /\ now < MaxClock
    /\ fault = "mkdir" => ~dirExists
    /\ now' = now + 1
    /\ IF NameIsInvalid(sanitized_name)
       THEN /\ lastCall' = call @@ [ok |-> FALSE, msg |-> [kind |-> "InvalidName"]]
            /\ UNCHANGED <<dirExists, files, okSaves, lastWrite>>
       ELSE IF fault = "mkdir"
       THEN /\ lastCall' = call @@ [ok |-> FALSE, msg |-> [kind |-> "DirectoryError"]]
            /\ UNCHANGED <<dirExists, files, okSaves, lastWrite>>
       ELSE IF fault = "open"
       THEN /\ lastCall' = call @@ [ok |-> FALSE,
                                    msg |-> [kind |-> "WriteError",
                                             file |-> FileName(sanitized_name)]]
            /\ dirExists' = TRUE
            /\ UNCHANGED <<files, okSaves, lastWrite>>
       ELSE IF fault = "dump"
       THEN /\ lastCall' = call @@ [ok |-> FALSE,
                                    msg |-> [kind |-> "WriteError",
                                             file |-> FileName(sanitized_name)]]
            /\ dirExists' = TRUE
            /\ files' = WriteFile(files, FileName(sanitized_name), [kind |-> "partial"])
            /\ lastWrite' = (sanitized_name :> "failed") @@ lastWrite
            /\ UNCHANGED okSaves
       ELSE /\ lastCall' = call @@ [ok |-> TRUE,
                                    msg |-> [kind |-> "Saved", name |-> profile_name,
                                             file |-> FileName(sanitized_name)]]
            /\ dirExists' = TRUE
            /\ files' = WriteFile(files, FileName(sanitized_name),
                                  [kind |-> "json",
                                   members |-> ProfileData(profile_name, sanitized_name,
                                                           description, parameters, now)])
            /\ lastWrite' = (sanitized_name :> "ok") @@ lastWrite
            /\ okSaves' = AppendSave(okSaves, sanitized_name,
                                     SaveRecord(profile_name, description, parameters))
    /\ UNCHANGED dirReadable

SaveProfile(profile_name, description, parameters, fault) ==
    /\ SaveEffect(profile_name, description, parameters, fault)
    /\ UNCHANGED <<sanVars, applyVars, restVars>>

LoadProfile(profile_name_sanitized) ==
    /\ lastCall' = [op |-> "load", name |-> profile_name_sanitized,
                    result |-> load_profile(profile_name_sanitized)]
    /\ UNCHANGED <<dirExists, files, now, okSaves, lastWrite, dirReadable, sanVars, applyVars, restVars>>

ListProfiles ==
    /\ lastCall' = [op |-> "list", result |-> list_profiles]
    /\ UNCHANGED <<dirExists, files, now, okSaves, lastWrite, dirReadable, sanVars, applyVars, restVars>>

NextStore ==
    \/ \E n \in DisplayNames, d \in Descriptions, p \in StoredParams, fault \in SaveFaults :
          SaveProfile(n, d, p, fault)
    \/ \E n \in LoadNames : LoadProfile(n)
    \/ ListProfiles

(***************************************************************************)
(* Values of the variables a specification leaves alone.                   *)
(***************************************************************************)

FileStates ==
    {[exists |-> FALSE, writable |-> FALSE, content |-> "0"],
     [exists |-> TRUE, writable |-> FALSE, content |-> "0"],
     [exists |-> TRUE, writable |-> TRUE, content |-> "0"]}

ApplyQuiet ==
    /\ sysfs = [path \in Paths |-> [exists |-> TRUE, writable |-> TRUE, content |-> "0"]]
    /\ pc = "idle"
    /\ applying = JMap(<< >>)
    /\ mi = 1
    /\ pj = 1
    /\ successCount = 0
    /\ failures = <<>>
    /\ calls = <<>>
    /\ applyResult = NoResult

\* Nothing asked of the accessor, nothing answered.
NoRequest == [module |-> "", parameter |-> "", value |-> ""]

NoAnswer == [ok |-> FALSE, msg |-> [kind |-> "none"]]

\* What is remembered of one call for the properties: whether the file
\* existed and was writable when the call began, the value it held then,
\* how many times the call opened the file, whether the module was unloaded
\* after the checks had passed, and how the open and the write ended.
NoLog == [existed |-> FALSE, writable |-> FALSE, before |-> "", attempts |-> 0,
          vanished |-> FALSE, env |-> "none"]

NoReadLog == [module |-> "", parameter |-> "", existed |-> FALSE, content |-> "", env |-> "none"]

AccessQuiet ==
    /\ wpc = "idle"
    /\ wreq = NoRequest
    /\ wres = NoAnswer
    /\ wlog = NoLog
    /\ rres = ""
    /\ rlog = NoReadLog

\* No scan asked for yet.
NoCommand == [ok |-> FALSE, lines |-> <<>>]

ScanQuiet ==
    /\ lsmodOut = NoCommand
    /\ scanPc = "idle"
    /\ module_list = <<>>
    /\ scanIdx = 1
    /\ module_data = <<>>
    /\ scanLog = <<>>

\* The interface before run_tui has loaded anything.
\* The edit overlay before it was ever opened: bound to no parameter.
NoEdit == [module |-> "", parameter |-> "", type |-> "", text |-> ""]

\* What is remembered of a handler's calls for the properties: the writes it
\* made through set_sysfs_param_value, in order, and the value each read
\* through get_sysfs_param_value returned, by parameter file.
NoCalls == [set |-> <<>>, get |-> <<>>]

TuiQuiet ==
    /\ loaded_module_data = <<>>
    /\ status_text = [kind |-> "none"]
    /\ overlay = "none"
    /\ profile_list_walker = <<>>
    /\ editing = NoEdit
    /\ tuiCalls = NoCalls
    /\ raised = "none"

\* No catalog asked for yet.
CatalogQuiet ==
    /\ modinfoOut = [module |-> "", ok |-> FALSE, lines |-> <<>>]
    /\ catPc = "idle"
    /\ catIdx = 1
    /\ params_info = <<>>
    /\ catResult = [t |-> "none"]

RestQuiet == AccessQuiet /\ ScanQuiet /\ TuiQuiet /\ CatalogQuiet

SanQuiet ==
    /\ sanIn = <<>>
    /\ sanOut = <<>>
    /\ sanOut2 = <<>>
    /\ sanStage = 0

StoreQuiet ==
    /\ dirExists = FALSE
    /\ dirReadable = TRUE
    /\ files = NoFiles
    /\ now = 0
    /\ lastCall = [op |-> "none"]
    /\ okSaves = NoFiles
    /\ lastWrite = NoFiles

(***************************************************************************)
(* The sanitiser applied to an input, then to its own result.              *)
(***************************************************************************)
Sanitize ==
    /\ sanStage = 0
    /\ sanOut' = _sanitize_filename(sanIn)
    /\ sanStage' = 1
    /\ UNCHANGED <<sanIn, sanOut2, storeVars, applyVars, restVars>>

Resanitize ==
    /\ sanStage = 1
    /\ sanOut2' = _sanitize_filename(sanOut)
    /\ sanStage' = 2
    /\ UNCHANGED <<sanIn, sanOut, storeVars, applyVars, restVars>>

NextSanitize == Sanitize \/ Resanitize

InitSanitize ==
    /\ sanIn \in SanInputs
    /\ sanOut = <<>>
    /\ sanOut2 = <<>>
    /\ sanStage = 0
    /\ StoreQuiet
    /\ ApplyQuiet
    /\ RestQuiet

SpecSanitize == InitSanitize /\ [][NextSanitize]_vars

InitApply ==
    /\ sysfs \in [Paths -> FileStates]
    /\ pc = "idle"
    /\ applying = JMap(<< >>)
    /\ mi = 1
    /\ pj = 1
    /\ successCount = 0
    /\ failures = <<>>
    /\ calls = <<>>
    /\ applyResult = NoResult
    /\ SanQuiet
    /\ StoreQuiet
    /\ RestQuiet

SpecApply == InitApply /\ [][NextApply]_vars

\* The profile directory starts absent or empty.
InitStore ==
    /\ dirExists \in BOOLEAN
    /\ dirReadable = TRUE
    /\ files = NoFiles
    /\ now = 0
    /\ lastCall = [op |-> "none"]
    /\ okSaves = NoFiles
    /\ lastWrite = NoFiles
    /\ SanQuiet
    /\ ApplyQuiet
    /\ RestQuiet

SpecStore == InitStore /\ [][NextStore]_vars

(***************************************************************************)
(* The store over a directory it did not write itself: the directory may   *)
(* be absent or unreadable and may hold anything under any name.           *)
(***************************************************************************)
WithoutKey(members, k) == SelectSeq(members, LAMBDA m : m[1] # k)

CompleteRecord == ProfileData(<<"P", "1">>, <<"P", "1">>, "desc", UsbDebug, 0)

ForeignProfileContents ==
    {[kind |-> "json", members |-> CompleteRecord],
     [kind |-> "json", members |-> << >>],
     [kind |-> "partial"], [kind |-> "binary"], [kind |-> "scalar"],
     [kind |-> "array"], [kind |-> "dir"], [kind |-> "locked"]}
    \cup {[kind |-> "json", members |-> WithoutKey(CompleteRecord, k)] : k \in RequiredKeys}

ForeignOtherContents == {[kind |-> "partial"], [kind |-> "dir"]}

ForeignProfileFiles == {FileName(<<"a">>), FileName(<<"P", "1">>)}

ForeignOtherFiles == {<<"a">>}

ForeignStores ==
    UNION {[D -> ForeignProfileContents \cup ForeignOtherContents] :
              D \in SUBSET (ForeignProfileFiles \cup ForeignOtherFiles)}

InitForeign ==
    /\ dirExists \in BOOLEAN
    /\ dirReadable \in BOOLEAN
    /\ ~dirExists => dirReadable
    /\ files \in {fs \in ForeignStores :
                     /\ ~dirExists => DOMAIN fs = {}
                     /\ \A f \in DOMAIN fs \cap ForeignOtherFiles :
                            fs[f] \in ForeignOtherContents}
    /\ now = 0
    /\ lastCall = [op |-> "none"]
    /\ okSaves = NoFiles
    /\ lastWrite = NoFiles
    /\ SanQuiet
    /\ ApplyQuiet
    /\ RestQuiet

NextForeign ==
    \/ \E n \in LoadNames : LoadProfile(n)
    \/ ListProfiles

SpecForeign == InitForeign /\ [][NextForeign]_vars

(***************************************************************************)
(* One call of set_sysfs_param_value at a time, step by step, on a host    *)
(* where modules can be unloaded by someone else at any moment.            *)
(***************************************************************************)
WritePaths == {<<"usbcore", "autosuspend">>, <<"bogus", "x">>}

WriteValues == {"1", AccessErrorSentinel}

\* What the open and the write can end in, an IOError without errno included.
WriteFaults == WriteOutcomes \cup {"noerrno"}

\* Lines 222-228: the path is built and the two checks are made.
WCall(m, p, value) ==
    LET check == PreCheck(sysfs, <<m, p>>) IN
    /\ wpc = "idle"
    /\ wreq' = [module |-> m, parameter |-> p, value |-> value]
    /\ wlog' = [existed |-> PathExists(sysfs, <<m, p>>),
                writable |-> sysfs[<<m, p>>].writable,
                before |-> sysfs[<<m, p>>].content,
                attempts |-> 0, vanished |-> FALSE, env |-> "none"]
    /\ wpc' = IF check.pass THEN "checked" ELSE "returned"
    /\ wres' = [ok |-> check.ok, msg |-> check.msg]
    /\ UNCHANGED <<sysfs, pc, applying, mi, pj, successCount, failures, calls, applyResult,
                   rres, rlog, sanVars, storeVars, scanVars, tuiVars, catalogVars>>

\* Another actor unloads a module: its parameter files are gone.
ModuleUnloaded(m) ==
    /\ \E path \in Paths : path[1] = m /\ sysfs[path].exists
    /\ sysfs' = [path \in Paths |->
                    IF path[1] = m THEN [sysfs[path] EXCEPT !.exists = FALSE]
                    ELSE sysfs[path]]
    /\ wlog' = IF wpc = "checked" /\ wreq.module = m
               THEN [wlog EXCEPT !.vanished = TRUE] ELSE wlog
    /\ UNCHANGED <<pc, applying, mi, pj, successCount, failures, calls, applyResult,
                   wpc, wreq, wres, rres, rlog, sanVars, storeVars, scanVars, tuiVars, catalogVars>>

\* Lines 230-245: the file is opened and written once; the open of a file
\* that is gone fails with ENOENT.
WOpenWrite ==
    /\ wpc = "checked"
    /\ \E env \in WriteFaults :
          /\ (env = "ENOENT") <=> ~PathExists(sysfs, <<wreq.module, wreq.parameter>>)
          /\ LET r == OpenAndWrite(sysfs, wreq.module, wreq.parameter, wreq.value, env) IN
             /\ sysfs' = r.fs
             /\ wres' = [ok |-> r.ok, msg |-> r.msg]
          /\ wlog' = [wlog EXCEPT !.attempts = @ + 1, !.env = env]
    /\ wpc' = "returned"
    /\ UNCHANGED <<pc, applying, mi, pj, successCount, failures, calls, applyResult,
                   wreq, rres, rlog, sanVars, storeVars, scanVars, tuiVars, catalogVars>>

\* The caller has taken the answer.
WForget ==
    /\ wpc = "returned"
    /\ wpc' = "idle"
    /\ wreq' = NoRequest
    /\ wres' = NoAnswer
    /\ wlog' = NoLog
    /\ UNCHANGED <<sysfs, pc, applying, mi, pj, successCount, failures, calls, applyResult,
                   rres, rlog, sanVars, storeVars, scanVars, tuiVars, catalogVars>>

NextWrite ==
    \/ \E path \in WritePaths, value \in WriteValues : WCall(path[1], path[2], value)
    \/ \E m \in {path[1] : path \in Paths} : ModuleUnloaded(m)
    \/ WOpenWrite
    \/ WForget

InitWrite ==
    /\ sysfs \in [Paths -> FileStates]
    /\ pc = "idle"
    /\ applying = JMap(<< >>)
    /\ mi = 1
    /\ pj = 1
    /\ successCount = 0
    /\ failures = <<>>
    /\ calls = <<>>
    /\ applyResult = NoResult
    /\ SanQuiet
    /\ StoreQuiet
    /\ RestQuiet

SpecWrite == InitWrite /\ [][NextWrite]_vars

(***************************************************************************)
(* Reads of parameter values, between writes made through                  *)
(* set_sysfs_param_value and modules being unloaded.                       *)
(***************************************************************************)
\* One whole call of get_sysfs_param_value; the open of a missing file
\* fails with ENOENT.
ReadValue(m, p, env) ==
    /\ (env = "ENOENT") <=> ~PathExists(sysfs, <<m, p>>)
    /\ rres' = get_sysfs_param_value(sysfs, m, p, env)
    /\ rlog' = [module |-> m, parameter |-> p, existed |-> PathExists(sysfs, <<m, p>>),
                content |-> sysfs[<<m, p>>].content, env |-> env]
    /\ UNCHANGED <<applyVars, wpc, wreq, wres, wlog, sanVars, storeVars, scanVars, tuiVars, catalogVars>>

\* One whole call of set_sysfs_param_value.
SetValue(m, p, value, env) ==
    LET r == set_sysfs_param_value(sysfs, m, p, value, env) IN
    /\ env # "ENOENT"
    /\ sysfs' = r.fs
    /\ wres' = [ok |-> r.ok, msg |-> r.msg]
    /\ UNCHANGED <<pc, applying, mi, pj, successCount, failures, calls, applyResult,
                   wpc, wreq, wlog, rres, rlog, sanVars, storeVars, scanVars, tuiVars, catalogVars>>

NextRead ==
    \/ \E path \in WritePaths, env \in ReadOutcomes : ReadValue(path[1], path[2], env)
    \/ \E path \in WritePaths, value \in WriteValues, env \in WriteOutcomes :
          SetValue(path[1], path[2], value, env)
    \/ \E m \in {path[1] : path \in Paths} : ModuleUnloaded(m)

SpecRead == InitWrite /\ [][NextRead]_vars

(***************************************************************************)
(* get_modinfo_params: the catalog of a module's parameters, parsed from   *)
(* the lines of the metadata command. Lines, names, descriptions and types *)
(* are sequences of characters.                                            *)
(***************************************************************************)
LowerLetters ==
    {"a", "b", "c", "d", "e", "f", "g", "h", "i", "j", "k", "l", "m", "n", "o", "p", "q", "r", "s", "t", "u", "v", "w", "x", "y", "z"}

UpperLetters ==
    {"A", "B", "C", "D", "E", "F", "G", "H", "I", "J", "K", "L", "M", "N", "O", "P", "Q", "R", "S", "T", "U", "V", "W", "X", "Y", "Z"}

\* \w
IsWordChar(c) ==
    c \in LowerLetters \cup UpperLetters \cup {"0", "1", "2", "_"}

\* \s
IsSpace(c) == c \in {" ", "\t"}

\* The lower-case form of a character (re.IGNORECASE compares these).
Lower(c) ==
    CASE c = "A" -> "a" [] c = "B" -> "b" [] c = "C" -> "c" [] c = "D" -> "d"
      [] c = "E" -> "e" [] c = "F" -> "f" [] c = "G" -> "g" [] c = "H" ->
      "h" [] c = "I" -> "i" [] c = "J" -> "j" [] c = "K" -> "k" [] c = "L"
      -> "l" [] c = "M" -> "m" [] c = "N" -> "n" [] c = "O" -> "o" [] c =
      "P" -> "p" [] c = "Q" -> "q" [] c = "R" -> "r" [] c = "S" -> "s" [] c
      = "T" -> "t" [] c = "U" -> "u" [] c = "V" -> "v" [] c = "W" -> "w" []
      c = "X" -> "x" [] c = "Y" -> "y" [] c = "Z" -> "z"
      [] OTHER -> c

\* str.lower()
LowerSeq(s) == [i \in 1..Len(s) |-> Lower(s[i])]

\* str.strip() on a sequence of characters
StripSeq(s) ==
    LET solid == {i \in 1..Len(s) : ~IsSpace(s[i])} IN
    IF solid = {} THEN <<>>
    ELSE SubSeq(s, CHOOSE i \in solid : \A j \in solid : i <= j,
                   CHOOSE i \in solid : \A j \in solid : j <= i)

\* (int|bool|short|long|charp|string)
BaseTypes ==
    {<<"i", "n", "t">>, <<"b", "o", "o", "l">>, <<"s", "h", "o", "r", "t">>,
     <<"l", "o", "n", "g">>, <<"c", "h", "a", "r", "p">>,
     <<"s", "t", "r", "i", "n", "g">>}

KwArrayOf == <<"a", "r", "r", "a", "y", " ", "o", "f", " ">>

KwCharp == <<"c", "h", "a", "r", "p">>

KwString == <<"s", "t", "r", "i", "n", "g">>

\* The literal "(string)" looked for in the full description.
ParenString == <<"(", "s", "t", "r", "i", "n", "g", ")">>

\* The pattern text w (in lower case) matches s at position i, case ignored.
MatchAt(s, i, w) ==
    /\ i >= 1
    /\ i + Len(w) - 1 <= Len(s)
    /\ \A k \in 1..Len(w) : Lower(s[i + k - 1]) = w[k]

\* w in s, case respected
Contains(s, w) == \E i \in 1..(Len(s) - Len(w) + 1) : SubSeq(s, i, i + Len(w) - 1) = w

\* The matched text kept as it is, charp included.
KeepCharp(g) == g

\* m.group(1).replace('charp', 'string'): the matched text is one base
\* word in the case it was written in, and replace() respects case.
ReplaceCharp(g) == IF g = KwCharp THEN KwString ELSE g

\* re.search of a pattern anchored at the end, "\s*" \o open \o base \o ")$":
\* the position of the opening text and the base word as written, if any.
TrailingHint(s, open) ==
    LET hits == {b \in BaseTypes :
                    MatchAt(s, Len(s) - Len(open \o b) , open \o b \o <<")">>)}
    IN  IF hits = {} THEN [found |-> FALSE, start |-> 0, group |-> <<>>]
        ELSE LET b == CHOOSE x \in hits : TRUE
                 start == Len(s) - Len(open \o b)
             IN  [found |-> TRUE, start |-> start,
                  group |-> SubSeq(s, start + Len(open), Len(s) - 1)]

\* re.search of open \o base anywhere, with or without \b on both sides:
\* the leftmost match and the base word as written, if any.
SearchKeyword(s, open, bounded) ==
    LET hits == {h \in (1..Len(s)) \X BaseTypes :
                    /\ MatchAt(s, h[1], open \o h[2])
                    /\ bounded =>
                          /\ (h[1] = 1 \/ ~IsWordChar(s[h[1] - 1]))
                          /\ (h[1] + Len(h[2]) > Len(s) \/ ~IsWordChar(s[h[1] + Len(h[2])]))}
    IN  IF hits = {} THEN [found |-> FALSE, group |-> <<>>]
        ELSE LET h == CHOOSE x \in hits : \A y \in hits : x[1] <= y[1]
             IN  [found |-> TRUE,
                  group |-> SubSeq(s, h[1] + Len(open), h[1] + Len(open) + Len(h[2]) - 1)]

\* potential_type != "string" or "(string)" in description_full
FallbackAccepted(potential_type, description_full) ==
    potential_type # KwString \/ Contains(description_full, ParenString)

\* Lines 134-172: the type and the cleaned description of one description.
InferType(description_full) ==
    LET array_hint == TrailingHint(description_full, <<"(">> \o KwArrayOf)
        simple_hint == TrailingHint(description_full, <<"(">>)
        m_array == SearchKeyword(description_full, KwArrayOf, FALSE)
        m_simple == SearchKeyword(description_full, <<>>, TRUE)
    IN  IF array_hint.found
        THEN [type |-> KwArrayOf \o ReplaceCharp(array_hint.group),
              description |-> StripSeq(SubSeq(description_full, 1, array_hint.start - 1))]
        ELSE IF simple_hint.found
        THEN [type |-> ReplaceCharp(simple_hint.group),
              description |-> StripSeq(SubSeq(description_full, 1, simple_hint.start - 1))]
        ELSE IF m_array.found
        THEN [type |-> KwArrayOf \o ReplaceCharp(m_array.group),
              description |-> description_full]
        ELSE IF m_simple.found
                /\ FallbackAccepted(ReplaceCharp(m_simple.group), description_full)
        THEN [type |-> ReplaceCharp(m_simple.group), description |-> description_full]
        ELSE [type |-> KwString, description |-> description_full]

\* A split at the last colon.
SplitLastColon(line) ==
    LET colons == {i \in 1..Len(line) : line[i] = ":"} IN
    IF colons = {} THEN <<line>>
    ELSE LET i == CHOOSE x \in colons : \A y \in colons : y <= x
         IN  <<SubSeq(line, 1, i - 1), SubSeq(line, i + 1, Len(line))>>

\* line.split(':', 1)
SplitFirstColon(line) ==
    LET colons == {i \in 1..Len(line) : line[i] = ":"} IN
    IF colons = {} THEN <<line>>
    ELSE LET i == CHOOSE x \in colons : \A y \in colons : x <= y
         IN  <<SubSeq(line, 1, i - 1), SubSeq(line, i + 1, Len(line))>>

\* Lines 123-177: what one line adds to params_info, if anything.
ParseLine(line) ==
    LET parts == SplitFirstColon(line)
        param_name == StripSeq(parts[1])
        description_full == IF Len(parts) > 1 THEN StripSeq(parts[2]) ELSE <<>>
        inferred == InferType(description_full)
    IN  IF StripSeq(line) = <<>> \/ param_name = <<>>
        THEN [skip |-> TRUE, name |-> <<>>, info |-> [description |-> <<>>, type |-> <<>>,
                                                      raw_modinfo_line |-> <<>>]]
        ELSE [skip |-> FALSE, name |-> param_name,
              info |-> [description |-> inferred.description, type |-> inferred.type,
                        raw_modinfo_line |-> StripSeq(line)]]

(***************************************************************************)
(* collect_all_module_data: the scan of the loaded modules. A dataset is a *)
(* Python dict kept as <<key, value>> pairs in insertion order; a module's *)
(* value is [t |-> "none"] or [t |-> "params", v |-> <<name, state>>       *)
(* pairs]; a sentinel's value is [t |-> "text", v |-> message].            *)
(***************************************************************************)
ErrorSentinel ==
    << <<"error", [t |-> "text", v |-> "Failed to list kernel modules (lsmod command failed)."]>> >>

InfoSentinel == << <<"info", [t |-> "text", v |-> "No kernel modules found."]>> >>

\* The characters of the module names that occur, for sorted().
Spell(m) ==
    CASE m = "usbcore" -> <<"u", "s", "b", "c", "o", "r", "e">>
      [] m = "bogus" -> <<"b", "o", "g", "u", "s">>
      [] m = "error" -> <<"e", "r", "r", "o", "r">>
      [] m = "info" -> <<"i", "n", "f", "o">>

\* The distinct names, greatest first.
ModulesDescending(S) ==
    LET spelled == SortedDescending({Spell(m) : m \in S})
    IN  [i \in 1..Len(spelled) |-> CHOOSE m \in S : Spell(m) = spelled[i]]

\* sorted(list(set(module_list)))
SortedModules(S) ==
    LET spelled == Sorted({Spell(m) : m \in S})
    IN  [i \in 1..Len(spelled) |-> CHOOSE m \in S : Spell(m) = spelled[i]]

\* [m for m in modules_output.strip().split('\n') if m], the output taken line by line
NonEmptyLines(lines) == SelectSeq(lines, LAMBDA m : m # "")

\* What the module listing command can return: failure, or lines of names
\* with blank lines and repetitions among them.
LsmodOutputs ==
    {[ok |-> FALSE, lines |-> <<>>]} \cup
    {[ok |-> TRUE, lines |-> l] :
        l \in {<<>>, <<"">>, <<"usbcore">>, <<"bogus">>, <<"usbcore", "", "bogus", "usbcore">>,
               <<"error", "usbcore">>, <<"info">>, <<"bogus", "info">>}}

Descriptor(p, type) == [description |-> p, type |-> type, raw_modinfo_line |-> p]

NoCatalog == [t |-> "none"]

\* What get_modinfo_params can return for a module: None, or the
\* descriptors of its parameters.
ModinfoResults(m) ==
    {NoCatalog} \cup
    (CASE m = "usbcore" ->
            {[t |-> "params", v |-> << <<"autosuspend", Descriptor("autosuspend", "int")>>,
                                      <<"debug", Descriptor("debug", "bool")>> >>]}
       [] m = "bogus" -> {[t |-> "params", v |-> << <<"x", Descriptor("x", "string")>> >>]}
       [] OTHER -> {})

\* How the reads of a scan can end.
ScanReads == {"ok", "ENOENT", "EACCES", "exc"}

\* Lines 468-481: the modules are listed; the listing failed, or named
\* nothing, or the names are deduplicated and sorted for the loop.
ScanBegin(out) ==
    /\ scanPc = "idle"
    /\ lsmodOut' = out
    /\ scanIdx' = 1
    /\ scanLog' = <<>>
    /\ IF ~out.ok
       THEN module_data' = ErrorSentinel /\ module_list' = <<>> /\ scanPc' = "done"
       ELSE IF NonEmptyLines(out.lines) = <<>>
       THEN module_data' = InfoSentinel /\ module_list' = <<>> /\ scanPc' = "done"
       ELSE /\ module_data' = <<>>
            /\ module_list' = SortedModules({NonEmptyLines(out.lines)[i] :
                                                i \in 1..Len(NonEmptyLines(out.lines))})
            /\ scanPc' = "modules"
    /\ UNCHANGED <<sanVars, storeVars, applyVars, accessVars, tuiVars, catalogVars>>

\* k in d
HasKey(d, k) == \E i \in 1..Len(d) : d[i][1] = k

\* d[k] = v
DictSet(d, k, v) ==
    IF \E i \in 1..Len(d) : d[i][1] = k
    THEN [i \in 1..Len(d) |-> IF d[i][1] = k THEN <<k, v>> ELSE d[i]]
    ELSE Append(d, <<k, v>>)

\* What the scan remembers of its calls for the properties: each call of
\* get_modinfo_params with its result and each call of
\* get_sysfs_param_value with the string it returned, in the order made.
CatalogCall(module_name, result) == [call |-> "modinfo", module |-> module_name, result |-> result]

ReadCall(module_name, param_name, value) ==
    [call |-> "read", module |-> module_name, parameter |-> param_name, value |-> value]

\* Lines 481-497: one module of the loop, its descriptors fetched and each
\* parameter read once.
ScanModule ==
    /\ scanPc = "modules"
    /\ scanIdx <= Len(module_list)
    /\ LET module_name == module_list[scanIdx] IN
       \E parameter_details_map \in ModinfoResults(module_name) :
          IF parameter_details_map = NoCatalog
          THEN /\ module_data' = DictSet(module_data, module_name, [t |-> "none"])
               /\ scanLog' = Append(scanLog, CatalogCall(module_name, parameter_details_map))
          ELSE LET details == parameter_details_map.v IN
               \E envs \in [1..Len(details) -> ScanReads] :
                  /\ \A j \in 1..Len(details) :
                        (envs[j] = "ENOENT") <=> ~PathExists(sysfs, <<module_name, details[j][1]>>)
                  /\ module_data' =
                        DictSet(module_data, module_name,
                                [t |-> "params",
                                 v |-> [j \in 1..Len(details) |->
                                          <<details[j][1],
                                            [current |-> get_sysfs_param_value(
                                                            sysfs, module_name, details[j][1], envs[j]),
                                             available |-> details[j][2]]>>]])
                  /\ scanLog' = Append(scanLog, CatalogCall(module_name, parameter_details_map))
                                \o [j \in 1..Len(details) |->
                                       ReadCall(module_name, details[j][1],
                                                get_sysfs_param_value(
                                                    sysfs, module_name, details[j][1], envs[j]))]
    /\ scanIdx' = scanIdx + 1
    /\ UNCHANGED <<lsmodOut, scanPc, module_list, sanVars, storeVars, applyVars, accessVars, tuiVars, catalogVars>>

\* Line 499: return module_data.
ScanReturn ==
    /\ scanPc = "modules"
    /\ scanIdx > Len(module_list)
    /\ scanPc' = "done"
    /\ UNCHANGED <<lsmodOut, module_list, scanIdx, module_data, scanLog,
                   sanVars, storeVars, applyVars, accessVars, tuiVars, catalogVars>>

NextScan ==
    \/ \E out \in LsmodOutputs : ScanBegin(out)
    \/ ScanModule
    \/ ScanReturn

SpecScan == InitWrite /\ [][NextScan]_vars

(***************************************************************************)
(* get_modinfo_params, line by line, over the outputs of the metadata      *)
(* command.                                                                *)
(***************************************************************************)
\* Parameter names as the lines give them.
LineNames ==
    {<<"d", "e", "b", "u", "g">>,
     <<" ", "m", "a", "s", "k", " ">>}

\* Descriptions before any trailing hint.
LineBodies ==
    {<<"E", "n", "a", "b", "l", "e", " ", "d", "e", "b", "u", "g", " ", "m", "e", "s", "s", "a", "g", "e", "s">>,
     <<"B", "i", "t", "m", "a", "s", "k", " ", "v", "a", "l", "u", "e", "s">>,
     << >>,
     <<"a", "r", "r", "a", "y", " ", "o", "f", " ", "i", "n", "t", " ", "v", "a", "l", "u", "e", "s">>,
     <<"L", "o", "n", "g", " ", "t", "i", "m", "e", "o", "u", "t">>,
     <<"a", "n", " ", "i", "n", "t">>,
     <<"p", "r", "i", "n", "t", " ", "s", "t", "r", "i", "n", "g">>,
     <<"(", "s", "t", "r", "i", "n", "g", ")", " ", "n", "a", "m", "e">>,
     <<"i", "n", "t", "e", "g", "e", "r", "s">>,
     <<"a", "r", "r", "a", "y", " ", "o", "f", " ", "C", "H", "A", "R", "P", " ", "h", "e", "r", "e">>,
     <<"c", "h", "a", "r", "p", " ", "o", "r", " ", "b", "o", "o", "l">>}

\* Trailing hints, none included.
LineHints ==
    {<< >>,
     <<" ", "(", "b", "o", "o", "l", ")">>,
     <<" ", "(", "B", "O", "O", "L", ")">>,
     <<" ", "(", "a", "r", "r", "a", "y", " ", "o", "f", " ", "i", "n", "t", ")">>,
     <<" ", "(", "c", "h", "a", "r", "p", ")">>,
     <<" ", "(", "a", "r", "r", "a", "y", " ", "o", "f", " ", "c", "h", "a", "r", "p", ")">>,
     <<"(", "i", "n", "t", ")">>,
     <<" ", "(", "A", "r", "r", "a", "y", " ", "o", "f", " ", "L", "o", "n", "g", ")">>,
     <<" ", "(", "C", "H", "A", "R", "P", ")">>,
     <<" ", "(", "s", "t", "r", "i", "n", "g", ")">>,
     <<" ", "(", "s", "h", "o", "r", "t", ")">>,
     <<" ", "(", "l", "o", "n", "g", ")">>,
     <<" ", "(", "u", "i", "n", "t", ")">>,
     <<" ", " ", "(", "a", "r", "r", "a", "y", " ", "o", "f", " ", "s", "t", "r", "i", "n", "g", ")">>}

\* Lines of the form name:description.
ParamLines == {n \o <<":">> \o b \o h : n \in LineNames, b \in LineBodies, h \in LineHints}

\* Lines of other forms: no colon, no name, blank, a second colon.
OddLines ==
    {<<"v", "e", "r", "b", "o", "s", "e">>, <<":", "n", "o", " ", "n", "a", "m", "e">>, <<" ", " ", " ">>, <<" ", ":", " ", "(", "i", "n", "t", ")">>,
     <<"r", "a", "t", "i", "o", ":", "a", ":", "b", " ", "r", "a", "t", "i", "o", " ", "(", "i", "n", "t", ")">>}

\* What the metadata command can return for a module: failure, nothing, or
\* lines, blank ones and repeated names among them.
ModinfoTexts ==
    {<<>>, <<<<" ", " ">>>>}
    \cup {<<l>> : l \in ParamLines \cup OddLines}
    \cup {<<<<"d", "e", "b", "u", "g", ":", "f", "i", "r", "s", "t", " ", "(", "i", "n", "t", ")">>, <<"d", "e", "b", "u", "g", ":", "s", "e", "c", "o", "n", "d", " ", "(", "b", "o", "o", "l", ")">>>>,
          <<<<"d", "e", "b", "u", "g", ":", "E", "n", "a", "b", "l", "e", " ", "d", "e", "b", "u", "g", " ", "m", "e", "s", "s", "a", "g", "e", "s", " ", "(", "b", "o", "o", "l", ")">>, << >>, <<"m", "a", "s", "k", ":", "B", "i", "t", "m", "a", "s", "k", " ", "v", "a", "l", "u", "e", "s", " ", "(", "a", "r", "r", "a", "y", " ", "o", "f", " ", "i", "n", "t", ")">>>>,
          <<<<"m", "a", "s", "k", ":", "o", "n", "e", " ", "(", "i", "n", "t", ")">>, <<"d", "e", "b", "u", "g", ":", "t", "w", "o", " ", "(", "b", "o", "o", "l", ")">>, <<"m", "a", "s", "k", ":", "t", "h", "r", "e", "e">>>>,
          <<<<":", "x">>, <<" ", " ">>>>}

CatalogBegin(module, ok, lines) ==
    /\ catPc = "idle"
    /\ modinfoOut' = [module |-> module, ok |-> ok, lines |-> lines]
    /\ catIdx' = 1
    /\ params_info' = <<>>
    /\ catResult' = NoCatalog
    /\ catPc' = IF module = "" \/ ~ok \/ (\A i \in 1..Len(lines) : StripSeq(lines[i]) = <<>>)
               THEN "done" ELSE "lines"
    /\ UNCHANGED <<sanVars, storeVars, applyVars, accessVars, scanVars, tuiVars>>

CatalogLine ==
    /\ catPc = "lines"
    /\ catIdx <= Len(modinfoOut.lines)
    /\ LET parsed == ParseLine(modinfoOut.lines[catIdx]) IN
       params_info' = IF parsed.skip THEN params_info
                      ELSE DictSet(params_info, parsed.name, parsed.info)
    /\ catIdx' = catIdx + 1
    /\ UNCHANGED <<modinfoOut, catPc, catResult,
                   sanVars, storeVars, applyVars, accessVars, scanVars, tuiVars>>

\* return params_info if params_info else None
CatalogReturn ==
    /\ catPc = "lines"
    /\ catIdx > Len(modinfoOut.lines)
    /\ catResult' = IF params_info = <<>> THEN NoCatalog
                    ELSE [t |-> "params", v |-> params_info]
    /\ catPc' = "done"
    /\ UNCHANGED <<modinfoOut, catIdx, params_info,
                   sanVars, storeVars, applyVars, accessVars, scanVars, tuiVars>>

NextCatalog ==
    \/ \E module \in {"bogus", ""}, ok \in BOOLEAN, lines \in ModinfoTexts :
          CatalogBegin(module, ok, lines)
    \/ CatalogLine
    \/ CatalogReturn

\* The parser reads no parameter file: one host stands for all.
InitCatalog ==
    /\ InitWrite
    /\ \A path \in Paths : sysfs[path] = [exists |-> TRUE, writable |-> TRUE, content |-> "0"]

SpecCatalog == InitCatalog /\ [][NextCatalog]_vars

(***************************************************************************)
(* The interface: the scan loaded at start, the save-profile dialogue and  *)
(* the click on a listed profile, which loads and applies it.              *)
(***************************************************************************)
\* d.get(k)
DictGet(d, k) ==
    IF HasKey(d, k) THEN d[CHOOSE i \in 1..Len(d) : d[i][1] = k][2] ELSE [t |-> "none"]

\* bool(value) for the values a dataset holds
Truthy(value) ==
    CASE value.t = "none" -> FALSE
      [] value.t = "text" -> value.v # ""
      [] OTHER -> value.v # <<>>

\* The condition of prompt_save_profile under which nothing can be saved.
SaveBlocked(data) ==
    \/ Truthy(DictGet(data, "error"))
    \/ (Truthy(DictGet(data, "info")) /\ Len(data) = 1 /\ HasKey(data, "info"))
    \/ data = <<>>

\* not profile_new_name.strip()
IsBlank(name) == \A i \in 1..Len(name) : name[i] = " "

\* The modules kept for a profile: not the special keys, not None, and
\* with at least one parameter.
SavedModules(data) ==
    SelectSeq(data, LAMBDA e : /\ e[1] \notin {"error", "info"}
                               /\ e[2].t = "params"
                               /\ e[2].v # <<>>)

\* params_to_save_in_profile: every parameter's 'current', as it was scanned.
ParamsToSave(data) ==
    LET kept == SavedModules(data) IN
    JMap([i \in 1..Len(kept) |->
            <<kept[i][1],
              JMap([j \in 1..Len(kept[i][2].v) |->
                      <<kept[i][2].v[j][1], JStr(kept[i][2].v[j][2].current)>>])>>])

\* What update_profile_list_display puts in the profile pane.
ProfileListDisplay(r) ==
    IF ~r.ok \/ r.names = <<>>
    THEN <<[kind |-> "text", text |-> r.msg]>>
    ELSE [i \in 1..Len(r.names) |-> [kind |-> "button", name |-> r.names[i]]]

\* run_tui, line 478: the result of the scan becomes the interface's data.
TuiLoadData ==
    /\ scanPc = "done"
    /\ loaded_module_data' = module_data
    /\ scanPc' = "loaded"
    /\ profile_list_walker' = ProfileListDisplay(list_profiles)
    /\ status_text' = IF list_profiles.ok THEN status_text ELSE list_profiles.msg
    /\ UNCHANGED <<overlay, editing, tuiCalls, raised,
                   lsmodOut, module_list, scanIdx, module_data, scanLog,
                   sanVars, storeVars, applyVars, accessVars, catalogVars>>

PromptSaveProfile ==
    /\ scanPc = "loaded"
    /\ overlay = "none"
    /\ pc = "idle"
    /\ IF SaveBlocked(loaded_module_data)
       THEN status_text' = [kind |-> "CannotSave"] /\ UNCHANGED overlay
       ELSE overlay' = "save_profile" /\ UNCHANGED status_text
    /\ UNCHANGED <<loaded_module_data, profile_list_walker, editing, tuiCalls, raised,
                   sanVars, storeVars, applyVars, accessVars, scanVars, catalogVars>>

ExecuteCancelOverlay ==
    /\ overlay # "none"
    /\ overlay' = "none"
    /\ UNCHANGED <<loaded_module_data, status_text, profile_list_walker,
                   editing, tuiCalls, raised,
                   sanVars, storeVars, applyVars, accessVars, scanVars, catalogVars>>

ExecuteSaveProfile(profile_new_name, profile_new_desc, fault) ==
    LET params_to_save_in_profile == ParamsToSave(loaded_module_data) IN
    /\ overlay = "save_profile"
    /\ IF IsBlank(profile_new_name)
       THEN /\ status_text' = [kind |-> "NameEmpty"]
            /\ UNCHANGED <<overlay, profile_list_walker, storeVars>>
       ELSE IF params_to_save_in_profile = JMap(<< >>)
       THEN /\ status_text' = [kind |-> "NothingToSave"]
            /\ overlay' = "none"
            /\ UNCHANGED <<profile_list_walker, storeVars>>
       ELSE /\ SaveEffect(profile_new_name, profile_new_desc, params_to_save_in_profile, fault)
            /\ overlay' = "none"
            /\ IF lastCall'.ok
               THEN /\ profile_list_walker' = ProfileListDisplay(list_profiles')
                    /\ status_text' = IF list_profiles'.ok THEN lastCall'.msg
                                      ELSE list_profiles'.msg
               ELSE /\ status_text' = lastCall'.msg
                    /\ UNCHANGED profile_list_walker
    /\ UNCHANGED <<loaded_module_data, editing, tuiCalls, raised,
                   sanVars, applyVars, accessVars, scanVars, catalogVars>>

\* on_profile_selected up to the call of apply_profile_parameters: the
\* profile is loaded; a failed load ends the handler with its message.
OnProfileSelected(profile_name_sanitized) ==
    LET r == load_profile(profile_name_sanitized) IN
    /\ scanPc = "loaded"
    /\ overlay = "none"
    /\ pc = "idle"
    /\ raised = "none"
    /\ \E i \in 1..Len(profile_list_walker) :
          profile_list_walker[i] = [kind |-> "button", name |-> profile_name_sanitized]
    /\ tuiCalls' = NoCalls
    /\ IF r.data = None
       THEN /\ status_text' = r.msg
            /\ UNCHANGED applyVars
       ELSE /\ status_text' = [kind |-> "Applying", name |-> r.data["profile_name"].v]
            /\ ApplyEnter(r.data["parameters"])
    /\ UNCHANGED <<loaded_module_data, overlay, profile_list_walker, editing, raised,
                   sanVars, storeVars, accessVars, scanVars, catalogVars>>

\* A refresh that reads every parameter of the modules the profile names.
RefreshWholeModule(data, profile_parameters, envs) ==
    [i \in 1..Len(data) |->
        LET mod_name == data[i][1] IN
        IF HasKey(profile_parameters.v, mod_name) /\ data[i][2].t = "params"
        THEN <<mod_name,
               [t |-> "params",
                v |-> [j \in 1..Len(data[i][2].v) |->
                         <<data[i][2].v[j][1],
                           [data[i][2].v[j][2] EXCEPT
                               !.current = get_sysfs_param_value(
                                               sysfs, mod_name, data[i][2].v[j][1],
                                               envs[<<mod_name, data[i][2].v[j][1]>>])]>>]]>>
        ELSE data[i]]

\* loaded_module_data[mod_name][param_name]['current'] = the value read now,
\* for the parameters of the applied profile that the data knows.
RefreshCurrent(data, profile_parameters, envs) ==
    [i \in 1..Len(data) |->
        LET mod_name == data[i][1] IN
        IF HasKey(profile_parameters.v, mod_name) /\ data[i][2].t = "params"
        THEN <<mod_name,
               [t |-> "params",
                v |-> [j \in 1..Len(data[i][2].v) |->
                         LET param_name == data[i][2].v[j][1] IN
                         IF HasKey(DictGet(profile_parameters.v, mod_name).v, param_name)
                         THEN <<param_name,
                                [data[i][2].v[j][2] EXCEPT
                                    !.current = get_sysfs_param_value(
                                                    sysfs, mod_name, param_name,
                                                    envs[<<mod_name, param_name>>])]>>
                         ELSE data[i][2].v[j]]]>>
        ELSE data[i]]

\* The parameter files that the refresh reads.
RefreshedPaths(data, profile_parameters) ==
    {path \in Paths :
        /\ HasKey(profile_parameters.v, path[1])
        /\ DictGet(data, path[1]).t = "params"
        /\ HasKey(DictGet(data, path[1]).v, path[2])
        /\ HasKey(DictGet(profile_parameters.v, path[1]).v, path[2])}

\* The first two failures, as the status line shows them.
FirstFailures(fs) == SubSeq(fs, 1, Min(2, Len(fs)))

\* Lines 413-421: the place in the profile's mapping where the refresh calls
\* .keys() on something that is no dictionary. 0: the parameters themselves;
\* k: the entry of the k-th module, which the data knows with a value other
\* than None; one past the last module: nowhere.
RefreshFaultAt(data, profile_parameters) ==
    IF ~IsDict(profile_parameters) THEN 0
    ELSE LET bad == {k \in 1..Len(profile_parameters.v) :
                        /\ HasKey(data, profile_parameters.v[k][1])
                        /\ DictGet(data, profile_parameters.v[k][1]).t # "none"
                        /\ ~IsDict(profile_parameters.v[k][2])}
         IN  IF bad = {} THEN Len(profile_parameters.v) + 1
             ELSE CHOOSE k \in bad : \A l \in bad : k <= l

\* The modules of the profile that the refresh loop gets through.
RefreshReach(data, profile_parameters) ==
    IF ~IsDict(profile_parameters) THEN JMap(<< >>)
    ELSE JMap(SubSeq(profile_parameters.v, 1, RefreshFaultAt(data, profile_parameters) - 1))

\* on_profile_selected after apply_profile_parameters has returned: the
\* summary is shown and the touched parameters are read again; .keys() on a
\* value that is no dictionary raises AttributeError out of the handler.
OnProfileApplied ==
    LET reach == RefreshReach(loaded_module_data, applying)
        touched == RefreshedPaths(loaded_module_data, reach)
    IN
    /\ scanPc = "loaded"
    /\ pc = "done"
    /\ status_text' = [kind |-> "Applied", name |-> status_text.name,
                       success_count |-> applyResult.success_count,
                       failure_count |-> applyResult.failure_count,
                       shown |-> FirstFailures(applyResult.failures)]
    /\ \E envs \in [Paths -> ScanReads] :
          /\ \A path \in Paths : (envs[path] = "ENOENT") <=> ~PathExists(sysfs, path)
          /\ \A path \in Paths \ touched : envs[path] \in {"ok", "ENOENT"}
          /\ loaded_module_data' = RefreshCurrent(loaded_module_data, reach, envs)
          /\ tuiCalls' = [set |-> <<>>,
                          get |-> [path \in touched |->
                                     get_sysfs_param_value(sysfs, path[1], path[2], envs[path])]]
    /\ raised' = IF ~IsDict(applying)
                    \/ RefreshFaultAt(loaded_module_data, applying) <= Len(applying.v)
                 THEN "AttributeError" ELSE "none"
    /\ pc' = "idle"
    /\ applying' = JMap(<< >>)
    /\ mi' = 1
    /\ pj' = 1
    /\ successCount' = 0
    /\ failures' = <<>>
    /\ applyResult' = NoResult
    /\ UNCHANGED <<sysfs, calls, overlay, profile_list_walker, editing,
                   sanVars, storeVars, accessVars, scanVars, catalogVars>>

ReplayNames == {<<"P", "1">>, <<" ">>}

ReplayLsmod == {out \in LsmodOutputs : out.lines \in {<<>>, <<"bogus">>}}

NextReplay ==
    \/ \E out \in ReplayLsmod : ScanBegin(out)
    \/ ScanModule
    \/ ScanReturn
    \/ TuiLoadData
    \/ PromptSaveProfile
    \/ ExecuteCancelOverlay
    \/ \E n \in ReplayNames, fault \in SaveFaults : ExecuteSaveProfile(n, "desc", fault)
    \/ \E n \in LoadNames : OnProfileSelected(n)
    \/ ApplyWrite
    \/ ApplyNextModule
    \/ ApplyReturn
    \/ OnProfileApplied

\* The interface starts on a host where usbcore's parameters exist and can
\* be written, and the parameter of the scanned module is in any state.
InitReplay ==
    /\ InitWrite
    /\ \A path \in Paths :
          path[1] = "usbcore" => sysfs[path] = [exists |-> TRUE, writable |-> TRUE, content |-> "0"]

SpecReplay == InitReplay /\ [][NextReplay]_vars

(***************************************************************************)
(* The click on a profile over a profile directory written by hand: a      *)
(* profile as save_profile writes it, one whose parameters are a string    *)
(* and one whose entry for a module is a string. load_profile accepts all  *)
(* three.                                                                  *)
(***************************************************************************)
ParametersNoMapping == JStr("x")

EntryNoMapping == JMap(<< <<"usbcore", JStr("on")>> >>)

HandWrittenFiles ==
    (FileName(<<"P", "1">>) :>
        [kind |-> "json",
         members |-> ProfileData(<<"P", "1">>, <<"P", "1">>, "desc", ExampleProfile, 0)])
    @@ (FileName(<<"a">>) :>
        [kind |-> "json",
         members |-> ProfileData(<<"a">>, <<"a">>, "desc", ParametersNoMapping, 0)])
    @@ (FileName(<<"M", "y", "_", "P">>) :>
        [kind |-> "json",
         members |-> ProfileData(<<"M", "y", " ", "P">>, <<"M", "y", "_", "P">>, "desc",
                                 EntryNoMapping, 0)])

\* The module listings of the hosts the interface is started on here.
SelectLsmod == {out \in LsmodOutputs : out.lines \in {<<>>, <<"usbcore">>}}

NextSelect ==
    \/ \E out \in SelectLsmod : ScanBegin(out)
    \/ ScanModule
    \/ ScanReturn
    \/ TuiLoadData
    \/ \E n \in LoadNames : OnProfileSelected(n)
    \/ ApplyMalformed
    \/ ApplyWrite
    \/ ApplyNextModule
    \/ ApplyReturn
    \/ OnProfileApplied

\* usbcore's parameters exist, writable or not; bogus is not loaded.
InitSelect ==
    /\ sysfs \in [Paths -> FileStates]
    /\ \A path \in Paths : sysfs[path].exists <=> path[1] = "usbcore"
    /\ pc = "idle"
    /\ applying = JMap(<< >>)
    /\ mi = 1
    /\ pj = 1
    /\ successCount = 0
    /\ failures = <<>>
    /\ calls = <<>>
    /\ applyResult = NoResult
    /\ dirExists = TRUE
    /\ dirReadable = TRUE
    /\ files = HandWrittenFiles
    /\ now = 0
    /\ lastCall = [op |-> "none"]
    /\ okSaves = NoFiles
    /\ lastWrite = NoFiles
    /\ SanQuiet
    /\ RestQuiet

SpecSelect == InitSelect /\ [][NextSelect]_vars

(***************************************************************************)
(* The parameter edit overlay: prompt_edit_parameter opens it on a         *)
(* parameter of the displayed module, execute_param_save validates the     *)
(* text, writes it and reads the value back.                               *)
(***************************************************************************)
\* What the user leaves in the edit field before pressing Save.
EditInputs == {"TRUE", "off", "2", "abc"}

\* The characters of an input.
SpellInput(user_input) ==
    CASE
         user_input = "TRUE" -> <<"T", "R", "U", "E">>
      [] user_input = "off" -> <<"o", "f", "f">>
      [] user_input = "2" -> <<"2">>
      [] user_input = "abc" -> <<"a", "b", "c">>

TrueWords == {<<"1">>, <<"y">>, <<"y", "e", "s">>, <<"t", "r", "u", "e">>, <<"o", "n">>}

FalseWords == {<<"0">>, <<"n">>, <<"n", "o">>, <<"f", "a", "l", "s", "e">>, <<"o", "f", "f">>}

Digits == {"0", "1", "2", "3", "4", "5", "6", "7", "8", "9"}

\* A check that lets every text through.
AnyParses(chars) == TRUE

\* int(user_input) does not raise ValueError: white space around, a sign,
\* then digits, single underscores allowed between them.
IntParses(chars) ==
    LET body == StripSeq(chars)
        digits == IF body # <<>> /\ body[1] \in {"+", "-"} THEN Tail(body) ELSE body
    IN  /\ digits # <<>>
        /\ \A i \in 1..Len(digits) : digits[i] \in Digits \cup {"_"}
        /\ digits[1] # "_"
        /\ digits[Len(digits)] # "_"
        /\ \A i \in 1..(Len(digits) - 1) : ~(digits[i] = "_" /\ digits[i + 1] = "_")

\* Lines 160-176: whether the text passes the check for the type.
InputValid(param_type, user_input) ==
    CASE param_type = "bool" -> LowerSeq(SpellInput(user_input)) \in TrueWords \cup FalseWords
      [] param_type = "int" -> IntParses(SpellInput(user_input))
      [] OTHER -> TRUE

\* validated_value for a text that passed the check.
ValidatedValue(param_type, user_input) ==
    IF param_type = "bool"
    THEN IF LowerSeq(SpellInput(user_input)) \in TrueWords THEN "1" ELSE "0"
    ELSE user_input

\* An update that gives the value to every parameter of the module.
CacheSetModule(data, module_name, param_name, value) ==
    [i \in 1..Len(data) |->
        IF data[i][1] = module_name /\ data[i][2].t = "params"
        THEN <<module_name,
               [t |-> "params",
                v |-> [j \in 1..Len(data[i][2].v) |->
                         <<data[i][2].v[j][1], [data[i][2].v[j][2] EXCEPT !.current = value]>>]]>>
        ELSE data[i]]

\* Lines 189-192: the cached current of a parameter the data holds.
CacheSet(data, module_name, param_name, value) ==
    [i \in 1..Len(data) |->
        IF data[i][1] = module_name /\ data[i][2].t = "params"
        THEN <<module_name,
               [t |-> "params",
                v |-> [j \in 1..Len(data[i][2].v) |->
                         IF data[i][2].v[j][1] = param_name
                         THEN <<param_name, [data[i][2].v[j][2] EXCEPT !.current = value]>>
                         ELSE data[i][2].v[j]]]>>
        ELSE data[i]]

PromptEditParameter(module_name, param_name) ==
    /\ scanPc = "loaded"
    /\ overlay = "none"
    /\ pc = "idle"
    /\ raised = "none"
    /\ DictGet(loaded_module_data, module_name).t = "params"
    /\ HasKey(DictGet(loaded_module_data, module_name).v, param_name)
    /\ LET param_data == DictGet(DictGet(loaded_module_data, module_name).v, param_name) IN
       editing' = [module |-> module_name, parameter |-> param_name,
                   type |-> param_data.available.type, text |-> param_data.current]
    /\ overlay' = "edit_param"
    /\ UNCHANGED <<loaded_module_data, status_text, profile_list_walker, tuiCalls, raised,
                   sanVars, storeVars, applyVars, accessVars, scanVars, catalogVars>>

ExecuteParamSave(user_input, wenv, renv) ==
    LET module_name == editing.module
        param_name == editing.parameter
        param_type == editing.type
        validated_value == ValidatedValue(param_type, user_input)
        r == set_sysfs_param_value(sysfs, module_name, param_name, validated_value, wenv)
        updated_value_from_sysfs == get_sysfs_param_value(r.fs, module_name, param_name, renv)
    IN
    /\ overlay = "edit_param"
    /\ editing' = [editing EXCEPT !.text = user_input]
    /\ IF ~InputValid(param_type, user_input)
       THEN /\ wenv = "ok" /\ renv = "ok"
            /\ status_text' = [kind |-> "ValidationError", type |-> param_type]
            /\ tuiCalls' = NoCalls
            /\ UNCHANGED <<sysfs, loaded_module_data, overlay>>
       ELSE /\ sysfs' = r.fs
            /\ status_text' = [kind |-> "SetParam", module |-> module_name,
                               parameter |-> param_name, msg |-> r.msg]
            /\ IF r.ok
               THEN /\ (renv = "ENOENT") <=> ~PathExists(r.fs, <<module_name, param_name>>)
                    /\ tuiCalls' = [set |-> <<[module |-> module_name, parameter |-> param_name,
                                               value |-> validated_value, ok |-> TRUE]>>,
                                    get |-> (<<module_name, param_name>> :>
                                                updated_value_from_sysfs)]
                    /\ loaded_module_data' = CacheSet(loaded_module_data, module_name,
                                                      param_name, updated_value_from_sysfs)
                    /\ overlay' = "none"
               ELSE /\ renv = "ok"
                    /\ tuiCalls' = [set |-> <<[module |-> module_name, parameter |-> param_name,
                                               value |-> validated_value, ok |-> FALSE]>>,
                                    get |-> <<>>]
                    /\ UNCHANGED <<loaded_module_data, overlay>>
    /\ UNCHANGED <<pc, applying, mi, pj, successCount, failures, calls, applyResult,
                   profile_list_walker, raised,
                   sanVars, storeVars, accessVars, scanVars, catalogVars>>

\* The module listings of the hosts the overlay is used on here.
EditLsmod == {out \in LsmodOutputs : out.lines \in {<<"usbcore">>, <<"bogus">>}}

\* How the write and the read behind the overlay end here.
EditWrites == {"ok", "EACCES", "exc"}

EditReads == {"ok", "spaced", "EIO", "exc"}

NextEdit ==
    \/ \E out \in EditLsmod : ScanBegin(out)
    \/ ScanModule
    \/ ScanReturn
    \/ TuiLoadData
    \/ \E path \in Paths : PromptEditParameter(path[1], path[2])
    \/ \E user_input \in EditInputs, wenv \in EditWrites, renv \in EditReads :
          ExecuteParamSave(user_input, wenv, renv)
    \/ ExecuteCancelOverlay

\* Every parameter file exists; usbcore/autosuspend may be read-only.
InitEdit ==
    /\ InitWrite
    /\ \A path \in Paths : sysfs[path].exists
    /\ \A path \in Paths \ {<<"usbcore", "autosuspend">>} : sysfs[path].writable

SpecEdit == InitEdit /\ [][NextEdit]_vars

(***************************************************************************)
(* Properties of the profile store.                                        *)
(***************************************************************************)
Last(s) == s[Len(s)]

Elems(s) == {s[i] : i \in 1..Len(s)}

Ascending(s) == \A i \in 1..Len(s) : \A j \in (i + 1)..Len(s) : StrLess(s[i], s[j])

\* The sanitized names whose most recent write completed.
Intact == {n \in DOMAIN lastWrite : lastWrite[n] = "ok"}

\* C5: save/load round trip. For every sanitized name whose most recent save
\* succeeded, load_profile of that name returns a record whose parameters are
\* the saved mapping, whose profile_name is the display name given to that
\* save and whose sanitized_name is the name used to load it, and that name
\* is the sanitized form of the display name.
C5_SaveLoadRoundTrip ==
    \A n \in Intact :
        LET saved == Last(okSaves[n])
            r == load_profile(n)
        IN  /\ n = _sanitize_filename(saved.profile_name)
            /\ n # <<>>
            /\ r.data # None
            /\ r.data["parameters"] = saved.parameters
            /\ r.data["profile_name"] = JStr(saved.profile_name)
            /\ r.data["sanitized_name"] = JStr(n)

\* A successful save whose display name differs from its sanitized name.
C5_Witness ==
    /\ lastCall.op = "save"
    /\ lastCall.ok
    /\ lastCall.profile_name = <<"M", "y", " ", "P">>
    /\ lastCall.parameters = UsbDebug
    /\ load_profile(<<"M", "y", "_", "P">>).data # None

\* C8: a save whose display name sanitizes to the empty string returns
\* failure and changes nothing: the files and the existence of the directory
\* are as before the call, and no file with an empty stem ever appears.
C8_InvalidNameStep ==
    (lastCall'.op = "save" /\ now' = now + 1
        /\ _sanitize_filename(lastCall'.profile_name) = <<>>)
    => (~lastCall'.ok /\ files' = files /\ dirExists' = dirExists)

C8_InvalidNameSave == [][C8_InvalidNameStep]_vars /\ [](FileName(<<>>) \notin DOMAIN files)

\* A name made only of forbidden characters was refused and the directory is still absent.
C8_Witness ==
    /\ lastCall.op = "save"
    /\ lastCall.profile_name = <<"!", "!">>
    /\ ~lastCall.ok
    /\ lastCall.msg.kind = "InvalidName"
    /\ ~dirExists

\* C9 as claimed: after at least one save_profile call, list_profiles
\* returns without error exactly the sanitized names of the successful
\* saves, in ascending order, and load_profile succeeds for each of them.
C9_Original ==
    (now >= 1) =>
        /\ list_profiles.ok
        /\ Elems(list_profiles.names) = DOMAIN okSaves
        /\ Ascending(list_profiles.names)
        /\ \A n \in Elems(list_profiles.names) : load_profile(n).data # None

\* C9, amended: while the profile directory does not exist list_profiles
\* returns an error and no save has succeeded; once it exists list_profiles
\* returns without error exactly the sanitized names of the saves that
\* opened their file for writing (every successful save, and every save that
\* failed while writing), each once, in ascending order, and load_profile
\* succeeds for exactly the returned names whose most recent write completed.
C9_ListAfterSaves ==
    /\ ~dirExists => (~list_profiles.ok /\ DOMAIN okSaves = {})
    /\ dirExists =>
        /\ list_profiles.ok
        /\ Elems(list_profiles.names) = DOMAIN lastWrite
        /\ DOMAIN okSaves \subseteq Elems(list_profiles.names)
        /\ Ascending(list_profiles.names)
        /\ \A n \in Elems(list_profiles.names) : (load_profile(n).data # None) <=> (n \in Intact)

\* Two names listed, one loadable and one left partial by a failed write.
C9_Witness ==
    /\ dirExists
    /\ Len(list_profiles.names) = 2
    /\ Cardinality(Intact) = 1
    /\ DOMAIN okSaves = Intact

\* C10: re-saving overwrites silently. When a sanitized name has been saved
\* successfully at least twice and its most recent write completed, the
\* listing holds that name once, load_profile returns the display name, the
\* description and the parameters of the most recent successful save, and a
\* successful save answers with the plain success message naming the display
\* name and the file, whether or not the file existed.
C10_OverwriteSilently ==
    /\ \A n \in Intact :
          Len(okSaves[n]) >= 2 =>
              LET saved == Last(okSaves[n])
                  d == load_profile(n).data
              IN  /\ Cardinality({i \in 1..Len(list_profiles.names) :
                                     list_profiles.names[i] = n}) = 1
                  /\ d # None
                  /\ d["profile_name"] = JStr(saved.profile_name)
                  /\ d["description"] = JStr(saved.description)
                  /\ d["parameters"] = saved.parameters
    /\ (lastCall.op = "save" /\ lastCall.ok) =>
          /\ lastCall.msg = [kind |-> "Saved", name |-> lastCall.profile_name,
                             file |-> FileName(_sanitize_filename(lastCall.profile_name))]
          /\ SaveRecord(lastCall.profile_name, lastCall.description, lastCall.parameters)
                = Last(okSaves[_sanitize_filename(lastCall.profile_name)])

\* "My Profile"-style collision: two display names with one sanitized form,
\* saved one after the other with different descriptions and parameters.
C10_Witness ==
    /\ lastCall.op = "save"
    /\ lastCall.ok
    /\ LET n == _sanitize_filename(lastCall.profile_name) IN
       /\ Len(okSaves[n]) = 2
       /\ okSaves[n][1].profile_name # okSaves[n][2].profile_name
       /\ okSaves[n][1].description # okSaves[n][2].description
       /\ okSaves[n][1].parameters # okSaves[n][2].parameters

\* C30: a save_profile call that returns failure leaves every profile that
\* was loadable before the call loadable after it with the same content, the
\* profile of the same sanitized name included.
C30_FailedSaveStep ==
    (lastCall'.op = "save" /\ now' = now + 1 /\ ~lastCall'.ok) =>
        \A n \in LoadNames :
            (load_profile(n).data # None) => (load_profile(n)' = load_profile(n))

C30_FailedSaveKeeps == [][C30_FailedSaveStep]_vars

\* A save that failed while writing over a profile saved before, which no
\* longer loads.
C30_Witness ==
    /\ lastCall.op = "save"
    /\ ~lastCall.ok
    /\ lastCall.msg.kind = "WriteError"
    /\ _sanitize_filename(lastCall.profile_name) \in DOMAIN okSaves
    /\ load_profile(_sanitize_filename(lastCall.profile_name)).data = None

(***************************************************************************)
(* Properties of load_profile and list_profiles over any directory.        *)
(***************************************************************************)
Present(f) == dirExists /\ f \in DOMAIN files

MembersKeys(members) == {members[i][1] : i \in 1..Len(members)}

\* C11: load_profile tells three failures apart and never returns partial
\* data. Whenever load_profile has returned: if no file of that name
\* exists the message is the not-found error; if the file holds text that
\* is not valid JSON the message is the invalid-JSON error (and bytes that
\* are not text give an error that is not the not-found one either); if
\* the file holds a JSON object lacking any of profile_name,
\* sanitized_name, description, date_created, parameters the message is
\* the missing-fields error; in all of these the returned record is None,
\* and a record is returned only for an object with all five fields, whole.
C11_LoadFailures ==
    lastCall.op = "load" =>
        LET f == FileName(lastCall.name)
            r == lastCall.result
        IN  /\ ~Present(f) => (r.data = None /\ r.msg.kind = "NotFound")
            /\ (Present(f) /\ files[f].kind = "partial") =>
                   (r.data = None /\ r.msg.kind = "InvalidJSON")
            /\ (Present(f) /\ files[f].kind = "binary") =>
                   (r.data = None /\ r.msg.kind \notin {"NotFound", "Loaded"})
            /\ (Present(f) /\ files[f].kind = "json"
                    /\ ~(RequiredKeys \subseteq MembersKeys(files[f].members))) =>
                   (r.data = None /\ r.msg.kind = "MissingFields")
            /\ r.data # None =>
                   /\ Present(f)
                   /\ files[f].kind = "json"
                   /\ RequiredKeys \subseteq DOMAIN r.data
                   /\ r.data = JsonLoad(files[f].members)
                   /\ r.msg.kind = "Loaded"

\* A record without its parameters was refused as missing fields, in a
\* directory that also holds a file of broken JSON and lacks a third name.
C11_Witness ==
    /\ lastCall.op = "load"
    /\ lastCall.result.data = None
    /\ lastCall.result.msg.kind = "MissingFields"
    /\ Present(FileName(lastCall.name))
    /\ files[FileName(lastCall.name)] =
          [kind |-> "json", members |-> WithoutKey(CompleteRecord, "parameters")]
    /\ \E n \in LoadNames : load_profile(n).msg.kind = "InvalidJSON"
    /\ \E n \in LoadNames : load_profile(n).msg.kind = "NotFound"

ProfileFilesPresent == {f \in DOMAIN files : EndsWithExt(f) /\ IsFile(files[f])}

\* C12: whenever list_profiles has returned: in an existing directory that
\* can be read and holds no profile file the result is the empty sequence
\* with the informational no-profiles message and no error; in a
\* non-existent directory the result is an error and no list.
C12_ListEmptyOrMissing ==
    lastCall.op = "list" =>
        LET r == lastCall.result IN
        /\ (dirExists /\ dirReadable /\ ProfileFilesPresent = {}) =>
               (r.ok /\ r.names = <<>> /\ r.msg.kind = "NoProfiles")
        /\ ~dirExists => (~r.ok /\ r.names = None /\ r.msg.kind = "NoDirectory")

\* An existing directory holding only a subdirectory named like a profile
\* and a file of another name was listed as empty.
C12_Witness ==
    /\ lastCall.op = "list"
    /\ dirExists
    /\ DOMAIN files = {FileName(<<"a">>), <<"a">>}
    /\ files[FileName(<<"a">>)].kind = "dir"
    /\ lastCall.result.ok
    /\ lastCall.result.names = <<>>

\* C13 as claimed: list_profiles on a non-existent directory returns an
\* empty list with an informational message and no error, and it returns
\* an error only for an unreadable directory.
C13_Original ==
    lastCall.op = "list" =>
        LET r == lastCall.result IN
        /\ ~dirExists => (r.ok /\ r.names = <<>> /\ r.msg.kind = "NoProfiles")
        /\ ~r.ok => (dirExists /\ ~dirReadable)

\* C13, amended: list_profiles returns an error and no list exactly when
\* the directory does not exist or cannot be read, each with its own
\* message; it returns the empty list with the informational message
\* exactly when the directory exists, can be read and holds no profile file.
C13_ListOutcomes ==
    lastCall.op = "list" =>
        LET r == lastCall.result IN
        /\ ~r.ok <=> (~dirExists \/ ~dirReadable)
        /\ ~r.ok => r.names = None
        /\ ~dirExists => r.msg.kind = "NoDirectory"
        /\ (dirExists /\ ~dirReadable) => r.msg.kind = "ReadError"
        /\ (r.ok /\ r.msg.kind = "NoProfiles") <=>
              (dirExists /\ dirReadable /\ ProfileFilesPresent = {})
        /\ (r.ok /\ r.msg.kind = "NoProfiles") => r.names = <<>>

\* A directory that does not exist was listed and the answer was an error.
C13_Witness ==
    /\ lastCall.op = "list"
    /\ ~dirExists
    /\ ~lastCall.result.ok
    /\ lastCall.result.msg.kind = "NoDirectory"

(***************************************************************************)
(* Properties of one set_sysfs_param_value call.                           *)
(***************************************************************************)
WPath == <<wreq.module, wreq.parameter>>

\* C14: the pre-checks come first, existence before permission. Whenever a
\* call has returned: if the file was absent when the call began the answer
\* is the not-found failure naming the path (the absent file is unwritable
\* too); if it existed and the process could not write it the answer is the
\* process-level permission failure; in both cases the file was never
\* opened and the parameter still holds the value it held before the call.
C14_PreChecksFirst ==
    wpc = "returned" =>
        /\ ~wlog.existed =>
              /\ ~wres.ok
              /\ wres.msg = [kind |-> "NotFound", path |-> WPath]
              /\ wlog.attempts = 0
              /\ sysfs[WPath].content = wlog.before
        /\ (wlog.existed /\ ~wlog.writable) =>
              /\ ~wres.ok
              /\ wres.msg.kind = "PermissionDeniedProcess"
              /\ wlog.attempts = 0
              /\ sysfs[WPath].content = wlog.before

\* A call on an absent (hence also unwritable) file was answered not found
\* without opening anything.
C14_Witness ==
    /\ wpc = "returned"
    /\ ~wlog.existed
    /\ ~wlog.writable
    /\ wres.msg.kind = "NotFound"
    /\ wlog.attempts = 0

\* C15: whenever a call has returned: if the module was unloaded by
\* another actor after the checks had passed and before the open, the
\* answer is the failure "disappeared" (not success, not the not-found
\* failure, not an exception), after one open; if the open or write was
\* refused with EACCES or EPERM the answer is the kernel-level permission
\* failure; if it was refused with EINVAL the answer is the invalid-value
\* failure naming the value and the parameter.
C15_RacedRemoval ==
    wpc = "returned" =>
        /\ wlog.vanished =>
              /\ ~wres.ok
              /\ wres.msg.kind = "Disappeared"
              /\ wlog.attempts = 1
        /\ wlog.env \in {"EACCES", "EPERM"} =>
              (~wres.ok /\ wres.msg.kind = "PermissionDeniedKernel")
        /\ wlog.env = "EINVAL" =>
              /\ ~wres.ok
              /\ wres.msg = [kind |-> "InvalidValue", value |-> wreq.value,
                             param |-> wreq.parameter]

\* The file existed and was writable at the checks, the module was then
\* unloaded, and the call answered "disappeared".
C15_Witness ==
    /\ wpc = "returned"
    /\ wlog.existed
    /\ wlog.writable
    /\ wlog.vanished
    /\ ~PathExists(sysfs, WPath)
    /\ wres.msg.kind = "Disappeared"

\* C16: set_sysfs_param_value never throws and never retries. Whenever a
\* call has ended, whatever the checks, the open and the write came to, it
\* ended by returning a pair and not by raising, it opened the file at most
\* once, and the flag is true only if the one write completed and the
\* parameter holds the value.
C16_NeverThrows ==
    wpc = "returned" =>
        /\ wres.msg.kind # "Raised"
        /\ wlog.attempts <= 1
        /\ wres.ok => (wlog.attempts = 1 /\ wlog.env = "ok"
                         /\ sysfs[WPath].content = wreq.value)

\* The open ended in an IOError without errno and the call raised.
C16_Witness ==
    /\ wpc = "returned"
    /\ wlog.existed
    /\ wlog.writable
    /\ wlog.env = "noerrno"
    /\ wres.msg = [kind |-> "Raised", exception |-> "TypeError"]

(***************************************************************************)
(* Properties of get_sysfs_param_value.                                    *)
(***************************************************************************)
ReadFailureSentinels == {AccessErrorSentinel, UnexpectedReadSentinel}

\* C17: get_sysfs_param_value never raises. Every call returns a string:
\* when the file existed and the read went through, the content of the file
\* without the white space around it; when the file was missing, when the
\* open or read was refused or failed with an IOError, the access-error
\* sentinel; on any other fault the unexpected-error sentinel.
C17_ReadNeverRaises ==
    rlog.env # "none" =>
        /\ (rlog.existed /\ ReadSucceeds(rlog.env)) => rres = rlog.content
        /\ (~rlog.existed \/ rlog.env \in {"ENOENT", "EACCES", "EIO", "noerrno"}) =>
               rres = AccessErrorSentinel
        /\ (rlog.existed /\ rlog.env = "exc") => rres = UnexpectedReadSentinel

\* A value written through set_sysfs_param_value was read back, trimmed,
\* from text that came with white space around it.
C17_Witness ==
    /\ rlog.env = "spaced"
    /\ rlog.existed
    /\ rlog.content = "1"
    /\ rres = "1"

\* C18: the read-failure sentinel differs from every value a parameter can
\* hold. Whenever a read has succeeded (the file existed and the read went
\* through), whatever the file held, values written earlier through
\* set_sysfs_param_value included, the string returned is not one of the
\* strings returned on read failure.
C18_SentinelDistinct ==
    (rlog.existed /\ ReadSucceeds(rlog.env)) => rres \notin ReadFailureSentinels

\* The sentinel text was written to a parameter by a successful
\* set_sysfs_param_value and a later successful read returned it.
C18_Witness ==
    /\ rlog.existed
    /\ ReadSucceeds(rlog.env)
    /\ rlog.content = AccessErrorSentinel
    /\ rres = AccessErrorSentinel

(***************************************************************************)
(* Properties of collect_all_module_data.                                  *)
(***************************************************************************)
\* C20: the top-level sentinels of a scan result are exclusive. Whenever
\* collect_all_module_data has returned: if the listing failed the result
\* is the error sentinel alone; if it succeeded and named no module the
\* result is the info sentinel alone; in every other case, whatever names
\* were listed, a result holding a key "error" or "info" holds nothing else.
C20_SentinelsExclusive ==
    scanPc = "done" =>
        /\ ~lsmodOut.ok => module_data = ErrorSentinel
        /\ (lsmodOut.ok /\ NonEmptyLines(lsmodOut.lines) = <<>>) => module_data = InfoSentinel
        /\ (lsmodOut.ok /\ NonEmptyLines(lsmodOut.lines) # <<>>) =>
              ((HasKey(module_data, "error") \/ HasKey(module_data, "info"))
                  => Len(module_data) = 1)

\* A module named "error" was listed beside usbcore, and the result holds
\* the key "error" together with usbcore's parameters.
C20_Witness ==
    /\ scanPc = "done"
    /\ lsmodOut.lines = <<"error", "usbcore">>
    /\ HasKey(module_data, "error")
    /\ HasKey(module_data, "usbcore")
    /\ Len(module_data) = 2

\* The names the listing gave.
ListedNames == {NonEmptyLines(lsmodOut.lines)[i] : i \in 1..Len(NonEmptyLines(lsmodOut.lines))}

CatalogCalls == SelectSeq(scanLog, LAMBDA c : c.call = "modinfo")

ReadsOf(m, p) == SelectSeq(scanLog, LAMBDA c : c.call = "read" /\ c.module = m /\ c.parameter = p)

\* C21: a scan degrades per module. Whenever a scan of a listing with at
\* least one name has returned: the keys of the dataset are the distinct
\* listed names, each once, in ascending order, and the catalog was asked
\* for once per name in that order; a module whose catalog was None maps
\* to None and the modules after it are in the dataset all the same; every
\* other module maps each name of its catalog, in the catalog's order, to a
\* state whose available is the catalog's descriptor and whose current is
\* the string returned by the one read made of that module and parameter.
C21_PerModuleScan ==
    (scanPc = "done" /\ lsmodOut.ok /\ ListedNames # {}) =>
        /\ Len(module_data) = Cardinality(ListedNames)
        /\ {module_data[i][1] : i \in 1..Len(module_data)} = ListedNames
        /\ \A i \in 1..(Len(module_data) - 1) :
              StrLess(Spell(module_data[i][1]), Spell(module_data[i + 1][1]))
        /\ Len(CatalogCalls) = Len(module_data)
        /\ \A i \in 1..Len(module_data) :
              LET m == module_data[i][1]
                  entry == module_data[i][2]
                  catalog == CatalogCalls[i].result
              IN  /\ CatalogCalls[i].module = m
                  /\ catalog = NoCatalog => entry = [t |-> "none"]
                  /\ catalog # NoCatalog =>
                        /\ entry.t = "params"
                        /\ Len(entry.v) = Len(catalog.v)
                        /\ \A j \in 1..Len(catalog.v) :
                              LET p == catalog.v[j][1] IN
                              /\ entry.v[j][1] = p
                              /\ entry.v[j][2].available = catalog.v[j][2]
                              /\ Len(ReadsOf(m, p)) = 1
                              /\ entry.v[j][2].current = ReadsOf(m, p)[1].value

\* The listing named usbcore, a blank line, bogus and usbcore again; bogus
\* had no catalog and usbcore, after it, was scanned with one of its
\* parameters unreadable.
C21_Witness ==
    /\ scanPc = "done"
    /\ lsmodOut.lines = <<"usbcore", "", "bogus", "usbcore">>
    /\ Len(module_data) = 2
    /\ module_data[1] = <<"bogus", [t |-> "none"]>>
    /\ module_data[2][1] = "usbcore"
    /\ module_data[2][2].t = "params"
    /\ module_data[2][2].v[1][2].current = "0"
    /\ module_data[2][2].v[2][2].current = AccessErrorSentinel

(***************************************************************************)
(* Properties of get_modinfo_params.                                       *)
(***************************************************************************)
\* The position of the first colon of a line, 0 if it has none.
FirstColon(line) ==
    IF \E i \in 1..Len(line) : line[i] = ":"
    THEN CHOOSE i \in 1..Len(line) : line[i] = ":" /\ \A j \in 1..(i - 1) : line[j] # ":"
    ELSE 0

\* The trimmed text before the first colon: the parameter's name.
NameOf(line) ==
    IF FirstColon(line) = 0 THEN StripSeq(line)
    ELSE StripSeq(SubSeq(line, 1, FirstColon(line) - 1))

\* The trimmed text after the first colon: the description as given.
DescriptionOf(line) ==
    IF FirstColon(line) = 0 THEN <<>>
    ELSE StripSeq(SubSeq(line, FirstColon(line) + 1, Len(line)))

\* The tag a base word stands for.
Tag(base) == IF base = <<"c", "h", "a", "r", "p">> THEN <<"s", "t", "r", "i", "n", "g">> ELSE base

BaseTags == {Tag(b) : b \in BaseTypes}

TypeTags == BaseTags \cup {<<"a", "r", "r", "a", "y", " ", "o", "f", " ">> \o t : t \in BaseTags}

\* The line the loop has just finished with, once it has finished with one.
LineDone == catPc = "lines" /\ catIdx > 1

LastLine == modinfoOut.lines[catIdx - 1]

\* C22: when the description of a line ends with "(<base>)" or
\* "(array of <base>)", base one of int, bool, short, long, charp, string, the
\* descriptor stored for the line's name has the normalized tag for its type
\* (array-of for the array form, charp read as string) and for its
\* description the text before that parenthetical, trimmed; the two example
\* lines give debug / bool / "Enable debug messages" and mask / array of int /
\* "Bitmask values".
C22_TrailingHint ==
    (LineDone /\ NameOf(LastLine) # <<>>) =>
        LET d == DescriptionOf(LastLine)
            info == DictGet(params_info, NameOf(LastLine))
        IN  /\ \A k \in 0..Len(d) : \A b \in BaseTypes :
                 /\ (d = SubSeq(d, 1, k) \o <<"(">> \o b \o <<")">>) =>
                        /\ info.type = Tag(b)
                        /\ info.description = StripSeq(SubSeq(d, 1, k))
                 /\ (d = SubSeq(d, 1, k) \o <<"(", "a", "r", "r", "a", "y", " ", "o", "f", " ">> \o b \o <<")">>) =>
                        /\ info.type = <<"a", "r", "r", "a", "y", " ", "o", "f", " ">> \o Tag(b)
                        /\ info.description = StripSeq(SubSeq(d, 1, k))
            /\ (LastLine = <<"d", "e", "b", "u", "g", ":", "E", "n", "a", "b", "l", "e", " ", "d", "e", "b", "u", "g", " ", "m", "e", "s", "s", "a", "g", "e", "s", " ", "(", "b", "o", "o", "l", ")">>) =>
                   /\ NameOf(LastLine) = <<"d", "e", "b", "u", "g">>
                   /\ info.type = <<"b", "o", "o", "l">>
                   /\ info.description = <<"E", "n", "a", "b", "l", "e", " ", "d", "e", "b", "u", "g", " ", "m", "e", "s", "s", "a", "g", "e", "s">>
            /\ (LastLine = <<"m", "a", "s", "k", ":", "B", "i", "t", "m", "a", "s", "k", " ", "v", "a", "l", "u", "e", "s", " ", "(", "a", "r", "r", "a", "y", " ", "o", "f", " ", "i", "n", "t", ")">>) =>
                   /\ info.type = <<"a", "r", "r", "a", "y", " ", "o", "f", " ", "i", "n", "t">>
                   /\ info.description = <<"B", "i", "t", "m", "a", "s", "k", " ", "v", "a", "l", "u", "e", "s">>

\* Both example lines parsed, and a charp hint read as string.
C22_Witness ==
    /\ catPc = "done"
    /\ modinfoOut.lines = <<<<"d", "e", "b", "u", "g", ":", "E", "n", "a", "b", "l", "e", " ", "d", "e", "b", "u", "g", " ", "m", "e", "s", "s", "a", "g", "e", "s", " ", "(", "b", "o", "o", "l", ")">>, << >>, <<"m", "a", "s", "k", ":", "B", "i", "t", "m", "a", "s", "k", " ", "v", "a", "l", "u", "e", "s", " ", "(", "a", "r", "r", "a", "y", " ", "o", "f", " ", "i", "n", "t", ")">>>>
    /\ catResult.t = "params"
    /\ DictGet(catResult.v, <<"d", "e", "b", "u", "g">>).type = <<"b", "o", "o", "l">>
    /\ DictGet(catResult.v, <<"m", "a", "s", "k">>).type = <<"a", "r", "r", "a", "y", " ", "o", "f", " ", "i", "n", "t">>

\* C23: the type of every descriptor is one of bool, int, short, long, string
\* or array of one of these five, whatever the case the hint was written in,
\* charp always read as string.
C23_ClosedTagSet ==
    \A i \in 1..Len(params_info) : params_info[i][2].type \in TypeTags

\* A hint in upper case stored as it was written.
C23_Witness ==
    /\ LineDone
    /\ DescriptionOf(LastLine) = <<"E", "n", "a", "b", "l", "e", " ", "d", "e", "b", "u", "g", " ", "m", "e", "s", "s", "a", "g", "e", "s", " ", "(", "B", "O", "O", "L", ")">>
    /\ DictGet(params_info, NameOf(LastLine)).type = <<"B", "O", "O", "L">>

\* A description that no trailing hint ends, in any case of letters.
NoTrailingHint(d) ==
    \A k \in 0..Len(d) : \A b \in BaseTypes :
        /\ LowerSeq(d) # LowerSeq(SubSeq(d, 1, k)) \o <<"(">> \o b \o <<")">>
        /\ LowerSeq(d) # LowerSeq(SubSeq(d, 1, k)) \o <<"(", "a", "r", "r", "a", "y", " ", "o", "f", " ">> \o b \o <<")">>

\* The places where a word stands in a text, and where it stands alone.
Occurs(s, i, w) == i >= 1 /\ i + Len(w) - 1 <= Len(s) /\ SubSeq(s, i, i + Len(w) - 1) = w

Standalone(s, i, w) ==
    /\ Occurs(s, i, w)
    /\ (i = 1 \/ ~IsWordChar(s[i - 1]))
    /\ (i + Len(w) > Len(s) \/ ~IsWordChar(s[i + Len(w)]))

\* The type the fallback is to give a description, keywords read in any case.
FallbackType(d) ==
    LET low == LowerSeq(d)
        arrays == {h \in (1..Len(d)) \X BaseTypes : Occurs(low, h[1], <<"a", "r", "r", "a", "y", " ", "o", "f", " ">> \o h[2])}
        words == {h \in (1..Len(d)) \X BaseTypes : Standalone(low, h[1], h[2])}
    IN  IF arrays # {}
        THEN <<"a", "r", "r", "a", "y", " ", "o", "f", " ">> \o Tag((CHOOSE h \in arrays : \A g \in arrays : h[1] <= g[1])[2])
        ELSE IF words # {}
        THEN LET t == Tag((CHOOSE h \in words : \A g \in words : h[1] <= g[1])[2])
             IN  IF t # <<"s", "t", "r", "i", "n", "g">> \/ (\E i \in 1..Len(d) : Occurs(d, i, <<"(", "s", "t", "r", "i", "n", "g", ")">>))
                 THEN t ELSE <<"s", "t", "r", "i", "n", "g">>
        ELSE <<"s", "t", "r", "i", "n", "g">>

\* C24: when no trailing hint ends the description, the descriptor keeps the
\* description unchanged and its type is array of <base> if "array of <base>"
\* occurs anywhere, else the first standalone base keyword (charp as string,
\* a keyword that means string only if "(string)" occurs in the description),
\* else string.
C24_Fallback ==
    (LineDone /\ NameOf(LastLine) # <<>> /\ NoTrailingHint(DescriptionOf(LastLine))) =>
        LET info == DictGet(params_info, NameOf(LastLine)) IN
        /\ info.description = DescriptionOf(LastLine)
        /\ info.type = FallbackType(DescriptionOf(LastLine))

\* A lower-case keyword found by the fallback, the description kept whole.
C24_Witness ==
    /\ LineDone
    /\ DescriptionOf(LastLine) = <<"a", "n", " ", "i", "n", "t">>
    /\ DictGet(params_info, NameOf(LastLine)).type = <<"i", "n", "t">>
    /\ DictGet(params_info, NameOf(LastLine)).description = <<"a", "n", " ", "i", "n", "t">>

\* The lines of the output that carry a name.
NamedLines == {i \in 1..Len(modinfoOut.lines) : NameOf(modinfoOut.lines[i]) # <<>>}

SelectionOver == pc = "idle" /\ status_text.kind = "Applied"

\* C26: for every profile that load_profile accepts, its parameters or one
\* of its module entries being no mapping included, on_profile_selected
\* completes with a summary or an error message in the status bar and no
\* exception leaves it.
C26_NoRawFault ==
    /\ raised = "none"
    /\ (scanPc = "loaded" /\ pc = "idle") => status_text.kind # "Applying"

\* A well-formed profile was applied and the handler returned.
C26_Witness ==
    /\ SelectionOver
    /\ raised = "none"
    /\ status_text.success_count + status_text.failure_count = 2

\* The profile names the parameter of the module.
Named(profile_parameters, m, p) ==
    /\ IsDict(profile_parameters)
    /\ \E k \in 1..Len(profile_parameters.v) :
          /\ profile_parameters.v[k][1] = m
          /\ IsDict(profile_parameters.v[k][2])
          /\ \E l \in 1..Len(profile_parameters.v[k][2].v) :
                profile_parameters.v[k][2].v[l][1] = p

\* C27: when on_profile_selected has applied a profile and returns, every
\* (module, parameter) of the profile that the cached dataset holds has for
\* its cached current the value read from the parameter file after the
\* apply, whether the write succeeded or not; every other cached entry and
\* every descriptor is as before.
C27_RefreshStep ==
    (scanPc = "loaded" /\ pc = "done" /\ pc' = "idle" /\ raised' = "none") =>
        /\ Len(loaded_module_data') = Len(loaded_module_data)
        /\ \A i \in 1..Len(loaded_module_data) :
              LET m == loaded_module_data[i][1]
                  old == loaded_module_data[i][2]
                  new == loaded_module_data'[i][2]
              IN  /\ loaded_module_data'[i][1] = m
                  /\ new.t = old.t
                  /\ (old.t # "params") => (new = old)
                  /\ (old.t = "params") =>
                        /\ Len(new.v) = Len(old.v)
                        /\ \A j \in 1..Len(old.v) :
                              LET p == old.v[j][1] IN
                              /\ new.v[j][1] = p
                              /\ new.v[j][2].available = old.v[j][2].available
                              /\ IF Named(applying, m, p)
                                 THEN /\ <<m, p>> \in DOMAIN tuiCalls'.get
                                      /\ new.v[j][2].current = tuiCalls'.get[<<m, p>>]
                                      /\ \/ new.v[j][2].current = sysfs'[<<m, p>>].content
                                         \/ new.v[j][2].current \in {AccessErrorSentinel,
                                                                     UnexpectedReadSentinel}
                                 ELSE new.v[j][2].current = old.v[j][2].current

IntegerTexts == {"0", "1", "2", "-3"}

BooleanTexts == {"1", "0", "TRUE", "off"}

\* The type the cached dataset records for a parameter.
CachedType(m, p) == DictGet(DictGet(loaded_module_data, m).v, p).available.type

\* The text in the edit field does not pass for the type of the parameter.
FailsValidation ==
    \/ editing.type = "bool" /\ editing.text \notin BooleanTexts
    \/ editing.type = "int" /\ editing.text \notin IntegerTexts

\* A step of execute_param_save, told from the closing of the overlay by
\* what it leaves in the status bar, the edit field or the parameter files.
SaveStep ==
    /\ overlay = "edit_param"
    /\ <<status_text, tuiCalls, editing, sysfs>>' # <<status_text, tuiCalls, editing, sysfs>>

C28_Writes ==
    \A k \in 1..Len(tuiCalls.set) :
        LET call == tuiCalls.set[k] IN
        /\ CachedType(call.module, call.parameter) = "bool" => call.value \in {"1", "0"}
        /\ CachedType(call.module, call.parameter) = "int" => call.value \in IntegerTexts

C28_Step ==
    (SaveStep /\ FailsValidation') =>
        /\ tuiCalls'.set = <<>>
        /\ sysfs' = sysfs
        /\ loaded_module_data' = loaded_module_data
        /\ overlay' = "edit_param"
        /\ status_text'.kind = "ValidationError"

\* C28: every write execute_param_save issues for a parameter of type bool
\* has the value "1" or "0" and for one of type int a value that parses as
\* an integer; a text that fails the check causes no write, leaves the
\* parameter files and the cached dataset as they were and keeps the overlay
\* open with a validation message in the status bar.
C28_TypeAwareValidation == [][C28_Step]_vars /\ []C28_Writes

\* "TRUE" typed for a bool parameter was written as "1".
C28_Witness ==
    /\ editing.type = "bool"
    /\ editing.text = "TRUE"
    /\ Len(tuiCalls.set) = 1
    /\ tuiCalls.set[1].value = "1"
    /\ tuiCalls.set[1].ok

C29_Step ==
    (SaveStep /\ ~FailsValidation') =>
        LET m == editing.module
            p == editing.parameter
        IN
        /\ Len(tuiCalls'.set) = 1
        /\ tuiCalls'.set[1].ok =>
              /\ overlay' = "none"
              /\ <<m, p>> \in DOMAIN tuiCalls'.get
              /\ \/ tuiCalls'.get[<<m, p>>] = sysfs'[<<m, p>>].content
                 \/ tuiCalls'.get[<<m, p>>] \in {AccessErrorSentinel, UnexpectedReadSentinel}
              /\ Len(loaded_module_data') = Len(loaded_module_data)
              /\ \A i \in 1..Len(loaded_module_data) :
                    LET old == loaded_module_data[i]
                        new == loaded_module_data'[i]
                    IN  IF old[1] # m \/ old[2].t # "params" THEN new = old
                        ELSE /\ new[1] = m
                             /\ new[2].t = "params"
                             /\ Len(new[2].v) = Len(old[2].v)
                             /\ \A j \in 1..Len(old[2].v) :
                                   IF old[2].v[j][1] # p THEN new[2].v[j] = old[2].v[j]
                                   ELSE /\ new[2].v[j][1] = p
                                        /\ new[2].v[j][2].available = old[2].v[j][2].available
                                        /\ new[2].v[j][2].current = tuiCalls'.get[<<m, p>>]
        /\ ~tuiCalls'.set[1].ok =>
              /\ loaded_module_data' = loaded_module_data
              /\ overlay' = "edit_param"

\* C29: when the write of execute_param_save succeeds, the cached current of
\* that (module, parameter) is the value read from the parameter file after
\* the write, no other cached entry changes and the overlay is closed; when
\* the write fails, the cached dataset is unchanged and the overlay stays
\* open.
C29_CacheAfterEdit == [][C29_Step]_vars

\* A write that succeeded followed by a read that failed: the cache holds
\* the read-error string, the file holds the value written.
C29_Witness ==
    /\ overlay = "none"
    /\ Len(tuiCalls.set) = 1
    /\ tuiCalls.set[1].ok
    /\ tuiCalls.set[1].module = "usbcore"
    /\ tuiCalls.set[1].parameter = "autosuspend"
    /\ sysfs[<<"usbcore", "autosuspend">>].content = "2"
    /\ DictGet(DictGet(loaded_module_data, "usbcore").v, "autosuspend").current
          = AccessErrorSentinel
    /\ DictGet(DictGet(loaded_module_data, "usbcore").v, "debug").current = "0"

(***************************************************************************)
(* Properties of the interface's save and apply.                           *)
(***************************************************************************)
\* A call that got past the pre-checks and opened the parameter file.
WriteIssued(call) == call.msg.kind \notin {"NotFound", "PermissionDeniedProcess"}

\* C19: callers treat the read sentinel as unknown. In every run of the
\* interface (scan, save a profile from the scanned data, click the
\* profile: load and apply) no write is issued to a parameter file with a
\* read-failure sentinel as the value.
C19_NoSentinelReplay ==
    \A i \in 1..Len(calls) :
        WriteIssued(calls[i]) => calls[i].value \notin ReadFailureSentinels

\* A parameter that could not be read at scan time was saved with the
\* sentinel as its value, and applying the profile wrote the sentinel text
\* into the parameter.
C19_Witness ==
    \E i \in 1..Len(calls) :
        /\ calls[i].ok
        /\ calls[i].value = AccessErrorSentinel
        /\ sysfs[<<calls[i].module, calls[i].parameter>>].content = AccessErrorSentinel

(***************************************************************************)
(* Properties of apply_profile_parameters.                                 *)
(***************************************************************************)
\* The (module, parameter, text value) triples of the well-formed modules of
\* a mapping, in mapping order.
RECURSIVE TriplesOf(_)
TriplesOf(entries) ==
    IF entries = <<>> THEN <<>>
    ELSE LET e == Head(entries) IN
         (IF IsDict(e[2])
          THEN [k \in 1..Len(e[2].v) |-> <<e[1], e[2].v[k][1], PyStr(e[2].v[k][2])>>]
          ELSE <<>>) \o TriplesOf(Tail(entries))

MalformedModules(entries) == {i \in 1..Len(entries) : ~IsDict(entries[i][2])}

CallTriples == [i \in 1..Len(calls) |-> <<calls[i].module, calls[i].parameter, calls[i].value>>]

IsPrefix(s, t) == Len(s) <= Len(t) /\ s = SubSeq(t, 1, Len(s))

ApplyReturned == pc = "done" /\ IsDict(applying)

\* C1: best-effort apply. While a mapping is applied the write attempts made
\* so far are a prefix of the mapping's triples (one attempt per triple, in
\* mapping order); on return every triple of every well-formed module has
\* been attempted exactly once whether or not earlier attempts failed,
\* success_count + failure_count is the number of triples plus the number of
\* malformed module entries, and failure_count is the length of failures.
C1_BestEffortApply ==
    /\ (pc = "loop") => IsPrefix(CallTriples, TriplesOf(applying.v))
    /\ ApplyReturned =>
        /\ CallTriples = TriplesOf(applying.v)
        /\ applyResult.success_count + applyResult.failure_count
              = Len(TriplesOf(applying.v)) + Cardinality(MalformedModules(applying.v))
        /\ applyResult.failure_count = Len(applyResult.failures)

\* An apply that returned after a malformed module, a failed write and then
\* a successful write.
C1_Witness ==
    /\ ApplyReturned
    /\ MalformedModules(applying.v) # {}
    /\ Len(calls) = 2
    /\ ~calls[1].ok
    /\ calls[2].ok

CallFailed(c) == ~c.ok

IsWriteFailure(f) == f.reason.kind # "InvalidModuleFormat"

\* C2: every failure entry that stands for a failed write names the module,
\* the parameter, the text value attempted and the reason that write
\* returned, one entry per failed write in the order of the writes; applying
\* the example {usbcore:{autosuspend:2}, bogus:{x:1}} where the first write
\* succeeds and bogus/x does not exist gives success_count 1, failure_count 1
\* and the single entry bogus, x, "1", NotFound.
C2_FailureIdentity ==
    ApplyReturned =>
        LET failed == SelectSeq(calls, CallFailed)
            real == SelectSeq(applyResult.failures, IsWriteFailure)
        IN  /\ Len(real) = Len(failed)
            /\ \A i \in 1..Len(real) :
                /\ real[i] = [module |-> failed[i].module, parameter |-> failed[i].parameter,
                              value |-> failed[i].value, reason |-> failed[i].msg]
                /\ real[i].reason.kind = "NotFound"
                      => real[i].reason.path = <<real[i].module, real[i].parameter>>
            /\ (applying = ExampleProfile /\ calls[1].ok /\ ~calls[2].existed)
                  => applyResult =
                        [success_count |-> 1, failure_count |-> 1,
                         failures |-> <<[module |-> "bogus", parameter |-> "x", value |-> "1",
                                         reason |-> [kind |-> "NotFound",
                                                     path |-> <<"bogus", "x">>]]>>]

\* The example profile applied with the first write successful and bogus/x absent.
C2_Witness ==
    /\ ApplyReturned
    /\ applying = ExampleProfile
    /\ calls[1].ok
    /\ ~calls[2].existed

\* C3: no rollback. During and after an apply, every parameter whose write
\* succeeded holds the value that write stored, also when a later or an
\* earlier write of the same apply failed.
C3_NoRollback ==
    (pc \in {"loop", "done"} /\ IsDict(applying)) =>
        \A i \in 1..Len(calls) :
            calls[i].ok =>
                /\ sysfs[<<calls[i].module, calls[i].parameter>>].exists
                /\ sysfs[<<calls[i].module, calls[i].parameter>>].content = calls[i].value

\* An apply that returned with a successful write followed by a failed one.
C3_Witness ==
    /\ ApplyReturned
    /\ Len(calls) = 2
    /\ calls[1].ok
    /\ ~calls[2].ok
    /\ sysfs[<<calls[1].module, calls[1].parameter>>].content # "0"

\* C4: a module whose entry is not a mapping gets exactly one failure entry,
\* the synthetic one, no write is attempted for it, and every triple of the
\* well-formed modules after it is still attempted.
C4_MalformedModule ==
    ApplyReturned =>
        \A i \in MalformedModules(applying.v) :
            LET m == applying.v[i][1] IN
            /\ Cardinality({k \in 1..Len(applyResult.failures) :
                               applyResult.failures[k].module = m}) = 1
            /\ \E k \in 1..Len(applyResult.failures) :
                  applyResult.failures[k] = MalformedEntry(m)
            /\ \A k \in 1..Len(calls) : calls[k].module # m
            /\ \A j \in (i + 1)..Len(applying.v) :
                  IsDict(applying.v[j][2]) =>
                      \A n \in 1..Len(applying.v[j][2].v) :
                          \E k \in 1..Len(calls) :
                              /\ calls[k].module = applying.v[j][1]
                              /\ calls[k].parameter = applying.v[j][2].v[n][1]

\* A malformed first module followed by a module whose two writes were attempted.
C4_Witness ==
    /\ ApplyReturned
    /\ applying = MalformedFirst
    /\ Len(calls) = 2
    /\ Len(applyResult.failures) >= 1

(***************************************************************************)
(* Properties of _sanitize_filename.                                       *)
(***************************************************************************)
\* C6: sanitising is idempotent: sanitising a sanitised name changes nothing.
C6_SanitizeIdempotent == (sanStage = 2) => (sanOut2 = sanOut)

\* An input longer than the limit whose sanitised form was cut and sanitised again.
C6_Witness ==
    /\ sanStage = 2
    /\ Len(sanIn) > NameLimit
    /\ Len(sanOut) = NameLimit
    /\ \E i \in 1..Len(sanIn) : sanIn[i] = "!"

\* What one character contributes: a space gives an underscore, an
\* alphanumeric, an underscore or a hyphen is kept, anything else is dropped.
CleanChar(c) ==
    IF c = " " THEN <<"_">>
    ELSE IF c \in WordChars \cup {"-"} THEN <<c>>
    ELSE <<>>

\* The contributions of the characters of x, in order.
RECURSIVE Clean(_)
Clean(x) ==
    IF Len(x) = 0 THEN <<>>
    ELSE IF Len(x) = 1 THEN CleanChar(x[1])
    ELSE LET h == Len(x) \div 2
         IN  Clean(SubSeq(x, 1, h)) \o Clean(SubSeq(x, h + 1, Len(x)))

FirstChars(x, n) == [i \in 1..(IF Len(x) < n THEN Len(x) ELSE n) |-> x[i]]

\* C7: the sanitised name is the input with each space turned into an
\* underscore, every character that is not alphanumeric, underscore or hyphen
\* removed, then cut to its first 200 characters; so it is at most 200 long
\* and holds only such characters; "My Profile!!" gives "My_Profile" and ""
\* gives "".
C7_SanitizeResult ==
    (sanStage >= 1) =>
        /\ sanOut = FirstChars(Clean(sanIn), 200)
        /\ Len(sanOut) <= 200
        /\ \A i \in 1..Len(sanOut) : sanOut[i] \in WordChars \cup {"-"}
        /\ (sanIn = ExampleName) => (sanOut = ExampleSanitized)
        /\ (sanIn = <<>>) => (sanOut = <<>>)

\* An input with spaces and forbidden characters that had to be cut.
C7_Witness ==
    /\ sanStage >= 1
    /\ Len(sanIn) > 201
    /\ sanIn[1] = " "
    /\ sanIn[Len(sanIn)] = "!"
    /\ Len(sanOut) = 200

====
